---- MODULE Spec2Model ----
(***************************************************************************)
(* A model of the light-curve feature evaluators (light-curve-feature) and *)
(* of the dm-dt map engine (light-curve-dmdt).                             *)
(*                                                                         *)
(* Six specifications share the module:                                    *)
(*   Spec       - evaluators are built (new, set_name, add_features, the   *)
(*                periodogram setters) and then evaluated (eval,           *)
(*                eval_or_fill, check_ts_length, get_names, size_hint);    *)
(*   SpecDmDt   - DmDt::convert_lc_to_points / convert_lc_to_gausses, run  *)
(*                pair by pair as the two nested loops of the source;      *)
(*   SpecImage  - normalise and to_png;                                    *)
(*   SpecParams - one object is built from numbers (constructors,          *)
(*                defaults, setters) and used: the frequency grid;         *)
(*   SpecValues - one evaluation on a series of given numbers: missing     *)
(*                weights, flat series, periodogram peaks, Bins::bin,      *)
(*                slopes, Kurtosis, StetsonK;                              *)
(*   SpecGrid   - Periodogram::from_time_series, one iterator turn at a    *)
(*                time, under weak fairness of its steps.                  *)
(*                                                                         *)
(* Conventions.  Times are integers counted in units of 1/200, so that a   *)
(* bin centre (key + 1/2) * window stays an integer for windows given in   *)
(* hundredths.  A name is a sequence of string tokens; two names are the   *)
(* same text exactly when they are the same token sequence.  A computed    *)
(* feature value is kept symbolic (the kind of the evaluator that computed *)
(* it); the canonical values "NaN" and "0" and the fill value are literal. *)
(***************************************************************************)
EXTENDS Integers, Sequences, FiniteSets, TLC

VARIABLES
    feats,      \* VecFE: the evaluators built so far, in declared order
    last,       \* the last operation applied to an evaluator and its outcome
    dd,         \* DmDt conversion in progress: grids, input, loop indices, matrix
    img,        \* normalise / to_png: input matrix and output
    inst,       \* one parametrised object: the constructor and setter calls, its use;
                \* in SpecGrid the call of from_time_series in progress
    num         \* one evaluation on a series with numeric values, and its result

vars == <<feats, last, dd, img, inst, num>>

----------------------------------------------------------------------------
(* Bounds of the model *)

\* Largest number of evaluator nodes (leaves and nested evaluators) built at once.
MaxNodes == 3

\* Longest input time series.
MaxLen == 4

\* Longest time series whose periodogram is searched for peaks.
MaxPeakLen == 3

\* Longest series whose kurtosis is computed.
MaxMomentLen == 5

\* Longest light curve given to the dm-dt conversions.
MaxPoints == 3

\* Largest numbers of rows and of columns of a matrix given to normalise.
MaxRows == 2

MaxCols == 2

\* The width of usize in the model: products are kept modulo 2^USizeBits.
USizeBits == 12

----------------------------------------------------------------------------
(* Generic helpers *)

RECURSIVE Flatten(_)
Flatten(ss) == IF ss = <<>> THEN <<>> ELSE Head(ss) \o Flatten(Tail(ss))

RECURSIVE SumSeq(_)
SumSeq(s) == IF s = <<>> THEN 0 ELSE Head(s) + SumSeq(Tail(s))

Repeat(x, n) == [i \in 1..n |-> x]

Max2(a, b) == IF a >= b THEN a ELSE b

----------------------------------------------------------------------------
(* Names: Rust's format! templates, as token sequences *)

Digit(d) ==
    CASE d = 0 -> "0" [] d = 1 -> "1" [] d = 2 -> "2" [] d = 3 -> "3"
      [] d = 4 -> "4" [] d = 5 -> "5" [] d = 6 -> "6" [] d = 7 -> "7"
      [] d = 8 -> "8" [] OTHER -> "9"

\* The decimal digits of n >= 0, most significant first.
RECURSIVE DecTokens(_)
DecTokens(n) ==
    IF n < 10 THEN <<Digit(n)>> ELSE DecTokens(n \div 10) \o <<Digit(n % 10)>>

\* n / d rounded to an integer as {:.0} rounds: to nearest, a tie to the even one.
RoundHalfEven(n, d) ==
    LET q == n \div d
        r == n % d
    IN  IF 2 * r < d THEN q
        ELSE IF 2 * r > d THEN q + 1
        ELSE IF q % 2 = 0 THEN q ELSE q + 1

\* format!("{:.0}", x) for x = n / d >= 0.
Fmt0(n, d) == DecTokens(RoundHalfEven(n, d))

\* format!("{:.1}", x) for x = h / 100 >= 0.
Fmt1(h) ==
    LET tenths == RoundHalfEven(h, 10)
    IN  DecTokens(tenths \div 10) \o <<".", Digit(tenths % 10)>>

\* format!("beyond_{:.0}_std", nstd), nstd given in tenths.
BeyondName(nstd10) == <<"beyond_">> \o Fmt0(nstd10, 10) \o <<"_std">>

\* format!("inter_percentile_range_{:.0}", 100.0 * quantile), quantile in thousandths.
InterPercentileName(q1000) == <<"inter_percentile_range_">> \o Fmt0(q1000, 10)

\* The peak names of Periodogram::new: period_i, period_s_to_n_i for i in 0..peaks.
PeakNames(peaks) ==
    Flatten([k \in 1..peaks |->
        << <<"period_">> \o DecTokens(k - 1), <<"period_s_to_n_">> \o DecTokens(k - 1) >>])

\* format!("bins_window{:.1}_offset{:.1}_{}", window, offset, name): the part before name.
BinsPrefix(window100, offset100) ==
    <<"bins_window">> \o Fmt1(window100) \o <<"_offset">> \o Fmt1(offset100) \o <<"_">>

----------------------------------------------------------------------------
(* Evaluators.  Every evaluator is a record of one shape:                   *)
(*   kind   - the struct;                                                   *)
(*   par    - its numeric fields;                                           *)
(*   names  - the names it owns (name, or peak_names);                      *)
(*   fnames - feature_names / features_names, filled by add_features;       *)
(*   subs   - the features of its nested FeatureExtractor.                  *)

PlainKinds == {"Kurtosis", "LinearFit"}

NestedKinds == {"Periodogram", "Bins", "Transformer"}

Evaluator(kind, par, names) ==
    [kind |-> kind, par |-> par, names |-> names, fnames |-> <<>>, subs |-> <<>>]

\* Kurtosis::new, LinearFit::new and their get_names.
PlainNew(kind) ==
    Evaluator(kind, <<>>,
        CASE kind = "Kurtosis" -> << <<"kurtosis">> >>
          [] OTHER -> << <<"linear_fit_slope">>, <<"linear_fit_slope_sigma">>,
                         <<"linear_fit_reduced_chi2">> >>)

\* The evaluators of one value that are built without a parameter.
ValueKinds == {"Cusum", "Eta", "EtaE", "ReducedChi2", "Skew", "StetsonK", "WeightedMean"}

\* Their get_names.
ValueName(kind) ==
    CASE kind = "Cusum" -> <<"cusum">>
      [] kind = "Eta" -> <<"eta">>
      [] kind = "EtaE" -> <<"eta_e">>
      [] kind = "ReducedChi2" -> <<"chi2">>
      [] kind = "Skew" -> <<"skew">>
      [] kind = "StetsonK" -> <<"stetson_K">>
      [] OTHER -> <<"weighted_mean">>

\* Cusum::new, Eta::new, EtaE::new, ReducedChi2::new, Skew::new, StetsonK::new,
\* WeightedMean::new.
ValueNew(kind) == Evaluator(kind, <<>>, <<ValueName(kind)>>)

\* BeyondNStd::new: assert!(nstd > 0).
BeyondNStdAccepts(nstd10) == nstd10 > 0

BeyondNStdNew(nstd10) == Evaluator("BeyondNStd", <<nstd10>>, <<BeyondName(nstd10)>>)

\* InterPercentileRange::new: assert!(quantile > 0 && quantile < 0.5).
InterPercentileRangeAccepts(q1000) == q1000 > 0 /\ q1000 < 500

InterPercentileRangeNew(q1000) ==
    Evaluator("InterPercentileRange", <<q1000>>, <<InterPercentileName(q1000)>>)

\* Periodogram::new: assert!(peaks > 0); resolution 10.0, max_freq_factor 1.0.
PeriodogramAccepts(peaks) == peaks > 0

PeriodogramNew(peaks) == Evaluator("Periodogram", <<peaks, 10, 1>>, PeakNames(peaks))

\* Bins::new: assert!(window.is_sign_positive()); window and offset in hundredths.
BinsAccepts(window100) == window100 >= 0

BinsNew(window100, offset100) == Evaluator("Bins", <<window100, offset100>>, <<>>)

\* An evaluator whose eval, eval_or_fill, get_names and size_hint are the ones
\* transformer_eval! generates; mode names its transform_ts.  Its feature_names are
\* filled as those of Periodogram are, here with the prefix transformer_.
TransformerNew(mode) == Evaluator("Transformer", <<mode>>, <<>>)

\* BeyondNStd::set_name.
SetName(e, name) == [e EXCEPT !.names = <<name>>]

\* Periodogram::set_freq_resolution and set_max_freq_factor.
SetFreqResolution(e, resolution) == [e EXCEPT !.par[2] = resolution]

SetMaxFreqFactor(e, factor) == [e EXCEPT !.par[3] = factor]

\* get_names.
GetNames(e) ==
    IF e.kind = "Periodogram" THEN e.names \o e.fnames
    ELSE IF e.kind \in NestedKinds THEN e.fnames
    ELSE e.names

\* No text before a sub-feature's name: what add_features must not do.
NoPrefix(e) == <<>>

\* The text add_features puts before a sub-feature's name.
NamePrefix(e) ==
    CASE e.kind = "Periodogram" -> <<"periodogram_">>
      [] e.kind = "Bins" -> BinsPrefix(e.par[1], e.par[2])
      [] OTHER -> <<"transformer_">>

\* A turn of the loop that takes the feature and forgets its names.
AddFeatureNoNames(e, feature) == [e EXCEPT !.subs = Append(@, feature)]

\* One turn of the loop of add_features: the names are extended, the feature is added.
AddFeature(e, feature) ==
    [e EXCEPT !.fnames = @ \o [k \in 1..Len(GetNames(feature)) |->
                                  NamePrefix(e) \o GetNames(feature)[k]],
              !.subs = Append(@, feature)]

\* Periodogram::add_features, Bins::add_features.
RECURSIVE AddFeatures(_, _)
AddFeatures(e, features) ==
    IF features = <<>> THEN e
    ELSE AddFeatures(AddFeature(e, Head(features)), Tail(features))

\* FeatureExtractor::size_hint: the sum over the features.
RECURSIVE SizeHint(_)
ExtractorSizeHint(fs) == SumSeq([k \in 1..Len(fs) |-> SizeHint(fs[k])])

\* size_hint.
SizeHint(e) ==
    CASE e.kind = "Periodogram" -> 2 * e.par[1] + ExtractorSizeHint(e.subs)
      [] e.kind \in NestedKinds -> ExtractorSizeHint(e.subs)
      [] e.kind = "LinearFit" -> 3
      [] OTHER -> 1

\* FeatureExtractor::get_names: the concatenation, in declared order.
ExtractorNames(fs) == Flatten([k \in 1..Len(fs) |-> GetNames(fs[k])])

\* min_ts_length: the documented minimum number of observations.
RECURSIVE MinTsLength(_)
RECURSIVE ExtractorMinTsLength(_)
ExtractorMinTsLength(fs) ==
    IF fs = <<>> THEN 0
    ELSE Max2(MinTsLength(Head(fs)), ExtractorMinTsLength(Tail(fs)))

MinTsLength(e) ==
    CASE e.kind = "Kurtosis" -> 4
      [] e.kind = "Skew" -> 3
      [] e.kind \in {"BeyondNStd", "LinearFit"} -> 2
      [] e.kind \in {"Cusum", "Eta", "EtaE", "StetsonK"} -> 2
      [] e.kind = "Periodogram" -> 2
      [] e.kind = "Transformer" -> ExtractorMinTsLength(e.subs)
      [] OTHER -> 1

\* The number of evaluators in a list, nested ones included.
RECURSIVE Nodes(_)
Nodes(fs) ==
    IF fs = <<>> THEN 0 ELSE 1 + Nodes(Head(fs).subs) + Nodes(Tail(fs))


----------------------------------------------------------------------------
(* Time series and outcomes *)

\* TimeSeries::new(t, m, w): w says whether the weights are present.
TimeSeries(t, m, w) == [t |-> t, m |-> m, w |-> w]

\* ts.lenu().
LenU(ts) == Len(ts.t)

\* The input series: n points at times 0, 1, 2, ..., with or without weights.
TsInputs ==
    {TimeSeries([i \in 1..n |-> 200 * (i - 1)], [i \in 1..n |-> i - 1], hw) :
        n \in 0..MaxLen, hw \in BOOLEAN}

FillValues == {"NaN", "0"}

NoError == [e |-> "none", actual |-> 0, minimum |-> 0]

\* EvaluatorError::ShortTimeSeries { actual, minimum }.
ShortTimeSeries(actual, minimum) ==
    [e |-> "ShortTimeSeries", actual |-> actual, minimum |-> minimum]

RequiresWeights == [e |-> "RequiresWeights", actual |-> 0, minimum |-> 0]

\* What a call ends with: Ok(v), Err(error), or an abort (a failed assert!, a panic).
Ok(v) == [v |-> v, tag |-> "Ok", err |-> NoError]

Err(error) == [v |-> <<>>, tag |-> "Err", err |-> error]

Abort == [v |-> <<>>, tag |-> "Abort", err |-> NoError]

\* One entry of a result vector: the value, and the name of the evaluator slot that
\* computed it (<<>> for an entry that was filled in, not computed).
Value(lab, val) == [lab |-> lab, val |-> val]

Filled(val, n) == Repeat(Value(<<>>, val), n)

\* The values of a leaf evaluator, each tagged with the name the leaf gives its slot.
Labelled(e, vals) ==
    [k \in 1..Len(vals) |-> Value(IF k <= Len(e.names) THEN e.names[k] ELSE <<>>, vals[k])]

\* The entries of a nested extractor, as the outer evaluator names them.
Prefixed(prefix, v) ==
    [k \in 1..Len(v) |->
        IF v[k].lab = <<>> THEN v[k] ELSE Value(prefix \o v[k].lab, v[k].val)]

\* check_ts_length: Ok(length) or ShortTimeSeries.
CheckTsLength(e, ts) ==
    IF LenU(ts) < SizeHint(e)
    THEN Err(ShortTimeSeries(LenU(ts), SizeHint(e)))
    ELSE Ok(<<LenU(ts)>>)

----------------------------------------------------------------------------
(* eval and eval_or_fill *)

\* PeriodogramFreq::get: how many frequencies k * min_freq (k = 1, 2, ...) lie below
\* max_freq + min_freq, with min_freq = pi / (resolution * dt) and
\* max_freq = factor * pi * N / dt; none when the time span dt is zero.  Here for
\* an integer resolution and factor; Get follows the grid itself, and what a
\* resolution or a factor that is not positive does to it.
FreqCount(ts, resolution, factor) ==
    IF LenU(ts) = 0 \/ resolution <= 0 \/ factor <= 0 THEN 0
    ELSE IF ts.t[LenU(ts)] - ts.t[1] = 0 THEN 0
    ELSE resolution * factor * LenU(ts)

\* ts.m.get_std().is_zero(): the sample standard deviation of two or more equal
\* magnitudes is zero, that of magnitudes that differ is not.
StdIsZero(ts) == LenU(ts) >= 2 /\ \A i \in 1..LenU(ts) : ts.m[i] = ts.m[1]

\* Periodogram::freq_power as a time series without errors; the frequencies are
\* counted in units of min_freq.  p_n is zero at every frequency when the standard
\* deviation of m is zero; any other power is not computed, and stands as a value of
\* its own, different from the others.
PeriodogramTs(e, ts) ==
    LET k == FreqCount(ts, e.par[2], e.par[3])
    IN  TimeSeries([i \in 1..k |-> 200 * i],
                   [i \in 1..k |-> IF StdIsZero(ts) THEN <<"0">> ELSE <<"power", i>>],
                   FALSE)

\* A sequence without the repetitions of consecutive elements (itertools group_by).
RECURSIVE Groups(_)
Groups(keys) ==
    IF Len(keys) <= 1 THEN keys
    ELSE IF keys[1] = keys[2] THEN Groups(Tail(keys))
    ELSE <<keys[1]>> \o Groups(Tail(keys))

\* The key of Bins::bin: floor((t - offset) / window), for a window above zero
\* (FloatKey has the window of zero).
BinKey(e, t) == (t - 2 * e.par[2]) \div (2 * e.par[1])

\* Bins::bin: one bin per run of equal keys, at time (key + 1/2) * window.  The
\* weighted mean of equal magnitudes is that magnitude; any other is not computed
\* here, and stands as a value of its own, different from the others.
Bin(e, ts) ==
    LET keys == Groups([i \in 1..LenU(ts) |-> BinKey(e, ts.t[i])])
    IN  TimeSeries([j \in 1..Len(keys) |-> (2 * keys[j] + 1) * e.par[1]],
                   [j \in 1..Len(keys) |->
                       IF \A i \in 1..LenU(ts) : ts.m[i] = ts.m[1] THEN <<ts.m[1]>>
                       ELSE <<"bin_m", j>>],
                   TRUE)

\* transform_ts of an evaluator built with transformer_eval!:
\*   mode 1 needs the weights and passes the series on;
\*   mode 2 drops the first observation and never fails.
TransformTs(e, ts) ==
    IF e.par[1] = 1
    THEN IF ts.w THEN [ts |-> ts, tag |-> "Ok", err |-> NoError]
         ELSE [ts |-> ts, tag |-> "Err", err |-> RequiresWeights]
    ELSE [ts |-> IF LenU(ts) = 0 THEN ts
                 ELSE TimeSeries(Tail(ts.t), Tail(ts.m), ts.w),
          tag |-> "Ok", err |-> NoError]

RECURSIVE Eval(_, _)
RECURSIVE EvalOrFill(_, _, _)

\* FeatureExtractor::eval: the results in declared order, up to the first failure.
RECURSIVE ExtractorEval(_, _)
ExtractorEval(fs, ts) ==
    IF fs = <<>> THEN Ok(<<>>)
    ELSE LET h == Eval(Head(fs), ts)
         IN  IF h.tag # "Ok" THEN h
             ELSE LET r == ExtractorEval(Tail(fs), ts)
                  IN  IF r.tag # "Ok" THEN r ELSE Ok(h.v \o r.v)

\* FeatureExtractor::eval_or_fill: every evaluator's own eval_or_fill, in declared order.
RECURSIVE ExtractorEvalOrFill(_, _, _)
ExtractorEvalOrFill(fs, ts, fill) ==
    IF fs = <<>> THEN Ok(<<>>)
    ELSE LET h == EvalOrFill(Head(fs), ts, fill)
         IN  IF h.tag # "Ok" THEN h
             ELSE LET r == ExtractorEvalOrFill(Tail(fs), ts, fill)
                  IN  IF r.tag # "Ok" THEN r ELSE Ok(h.v \o r.v)

\* BeyondNStd::eval: the fraction of observations beyond nstd deviations, always.
BeyondNStdEval(e, ts) == Ok(Labelled(e, <<"beyond_n_std">>))

\* The value of an evaluator that leaves the test of get_std().is_zero() out.
NoZeroTest(ts, value) == value

\* The value of an evaluator that tests get_std().is_zero() first.
ZeroOr(ts, value) == IF StdIsZero(ts) THEN "0" ELSE value

\* Kurtosis::eval: assert!(ts.lenu() > 3), then zero on a flat series.
KurtosisEval(e, ts) ==
    IF LenU(ts) > 3 THEN Ok(Labelled(e, <<ZeroOr(ts, "kurtosis")>>)) ELSE Abort

\* Skew::eval: assert!(ts.lenu() > 2), then zero on a flat series.
SkewEval(e, ts) ==
    IF LenU(ts) > 2 THEN Ok(Labelled(e, <<ZeroOr(ts, "skew")>>)) ELSE Abort

\* Cusum::eval and Eta::eval: zero on a flat series.
CusumEval(e, ts) == Ok(Labelled(e, <<ZeroOr(ts, "cusum")>>))

EtaEval(e, ts) == Ok(Labelled(e, <<ZeroOr(ts, "eta")>>))

\* EtaE::eval: zero on a flat series; ts.t.sample[ts.lenu() - 1] of an empty series
\* is out of bounds.
EtaEEval(e, ts) ==
    IF ~StdIsZero(ts) /\ LenU(ts) = 0 THEN Abort
    ELSE Ok(Labelled(e, <<ZeroOr(ts, "eta_e")>>))

\* ts.get_m_weighted_mean() and ts.get_m_reduced_chi2(): an Option, None without
\* weights.
GetMWeightedMean(ts) == IF ts.w THEN <<"weighted_mean">> ELSE <<>>

GetMReducedChi2(ts) == IF ts.w THEN <<"chi2">> ELSE <<>>

\* Option::unwrap_or_else(T::nan).
UnwrapOrNaN(option) == IF option = <<>> THEN "NaN" ELSE option[1]

\* A StetsonK::eval that fails where the weights are missing.
StetsonKEvalRequiresWeights(e, ts) ==
    IF ts.w THEN Ok(Labelled(e, <<"stetson_K">>)) ELSE Err(RequiresWeights)

\* StetsonK::eval: match ts.err2 { Some => the value, None => vec![NaN] }.
StetsonKEval(e, ts) ==
    IF ts.w THEN Ok(Labelled(e, <<"stetson_K">>)) ELSE Ok(Labelled(e, <<"NaN">>))

\* WeightedMean::eval and ReducedChi2::eval.
WeightedMeanEval(e, ts) == Ok(Labelled(e, <<UnwrapOrNaN(GetMWeightedMean(ts))>>))

ReducedChi2Eval(e, ts) == Ok(Labelled(e, <<UnwrapOrNaN(GetMReducedChi2(ts))>>))

\* A LinearFit::eval with one NaN where the weights are missing.
LinearFitEvalOneNaN(e, ts) ==
    IF ts.w THEN Ok(Labelled(e, <<"slope", "slope_sigma", "reduced_chi2">>))
    ELSE Ok(Labelled(e, <<"NaN">>))

\* LinearFit::eval: the fit, or three NaN without weights.
LinearFitEval(e, ts) ==
    IF ts.w THEN Ok(Labelled(e, <<"slope", "slope_sigma", "reduced_chi2">>))
    ELSE Ok(Labelled(e, Repeat("NaN", 3)))

\* InterPercentileRange::eval: the length check, then the value.
InterPercentileRangeEval(e, ts) ==
    LET c == CheckTsLength(e, ts)
    IN  IF c.tag = "Err" THEN c ELSE Ok(Labelled(e, <<"inter_percentile_range">>))

\* The 2 * peaks leading entries of Periodogram::eval: period and signal to noise of
\* the k-th peak (0 when there are fewer peaks), for k = 0 .. peaks - 1.
PeakFeatures(e) ==
    LET names == PeakNames(e.par[1])
    IN  [j \in 1..2 * e.par[1] |->
            Value(names[j], IF j % 2 = 1 THEN "period" ELSE "period_s_to_n")]

\* Periodogram::eval: the peak entries, then the nested extractor on the periodogram.
PeriodogramEval(e, ts) ==
    LET sub == ExtractorEval(e.subs, PeriodogramTs(e, ts))
    IN  IF sub.tag # "Ok" THEN sub
        ELSE Ok(PeakFeatures(e) \o Prefixed(NamePrefix(e), sub.v))

\* Bins::eval: nothing without sub-features, NaN without weights, else the nested
\* extractor on the binned series.
BinsEval(e, ts) ==
    IF SizeHint(e) = 0 THEN Ok(<<>>)
    ELSE IF ~ts.w THEN Ok(Filled("NaN", SizeHint(e)))
    ELSE LET sub == ExtractorEval(e.subs, Bin(e, ts))
         IN  IF sub.tag # "Ok" THEN sub ELSE Ok(Prefixed(NamePrefix(e), sub.v))

\* eval as transformer_eval! generates it.
TransformerEval(e, ts) ==
    LET arrays == TransformTs(e, ts)
    IN  IF arrays.tag = "Err" THEN Err(arrays.err)
        ELSE LET sub == ExtractorEval(e.subs, arrays.ts)
             IN  IF sub.tag # "Ok" THEN sub ELSE Ok(Prefixed(NamePrefix(e), sub.v))

\* An eval_or_fill that fills every entry whenever eval fails, as the default does.
TransformerEvalOrFillAllFill(e, ts, fill) ==
    LET r == TransformerEval(e, ts)
    IN  IF r.tag = "Err" THEN Ok(Filled(fill, SizeHint(e))) ELSE r

\* eval_or_fill as transformer_eval! generates it.
TransformerEvalOrFill(e, ts, fill) ==
    LET arrays == TransformTs(e, ts)
    IN  IF arrays.tag = "Err" THEN Ok(Filled(fill, SizeHint(e)))
        ELSE LET sub == ExtractorEvalOrFill(e.subs, arrays.ts, fill)
             IN  IF sub.tag # "Ok" THEN sub ELSE Ok(Prefixed(NamePrefix(e), sub.v))

\* FeatureEvaluator::eval_or_fill, the default of the trait.
DefaultEvalOrFill(e, ts, fill) ==
    LET r == Eval(e, ts)
    IN  IF r.tag = "Err" THEN Ok(Filled(fill, SizeHint(e))) ELSE r

\* FeatureEvaluator::eval, by kind.
Eval(e, ts) ==
    CASE e.kind = "Kurtosis" -> KurtosisEval(e, ts)
      [] e.kind = "LinearFit" -> LinearFitEval(e, ts)
      [] e.kind = "InterPercentileRange" -> InterPercentileRangeEval(e, ts)
      [] e.kind = "Periodogram" -> PeriodogramEval(e, ts)
      [] e.kind = "Bins" -> BinsEval(e, ts)
      [] e.kind = "Transformer" -> TransformerEval(e, ts)
      [] e.kind = "Cusum" -> CusumEval(e, ts)
      [] e.kind = "Eta" -> EtaEval(e, ts)
      [] e.kind = "EtaE" -> EtaEEval(e, ts)
      [] e.kind = "ReducedChi2" -> ReducedChi2Eval(e, ts)
      [] e.kind = "Skew" -> SkewEval(e, ts)
      [] e.kind = "StetsonK" -> StetsonKEval(e, ts)
      [] e.kind = "WeightedMean" -> WeightedMeanEval(e, ts)
      [] OTHER -> BeyondNStdEval(e, ts)

\* FeatureEvaluator::eval_or_fill, by kind.
EvalOrFill(e, ts, fill) ==
    IF e.kind = "Transformer" THEN TransformerEvalOrFill(e, ts, fill)
    ELSE DefaultEvalOrFill(e, ts, fill)


----------------------------------------------------------------------------
(* The dm-dt map: grids, convert_lc_to_points, convert_lc_to_gausses.          *)
(* Times, magnitudes and grid borders are integers; the cell size of a grid   *)
(* is an integer, so that idx and the borders are exact.  lg dt = log10(dt)   *)
(* is never computed: it is compared with an integer border b through         *)
(* dt < 10^b, and its cell comes from the number of digits of dt.  A value of *)
(* the normal cdf is counted in eighths.                                      *)

\* Grid::new(start, end, n) and its assert!(end > start).
GridAccepts(start, end) == end > start

Grid(start, end, n) == [n |-> n, start |-> start, end |-> end]

\* cell_size = (end - start) / n.
CellSize(g) == (g.end - g.start) \div g.n

\* borders = linspace(start, end, n + 1).
Borders(g) == [k \in 1..g.n + 1 |-> g.start + (k - 1) * CellSize(g)]

\* CellIndex.
LowerMin == [v |-> 0, tag |-> "LowerMin"]

GreaterMax == [v |-> 0, tag |-> "GreaterMax"]

CellValue(v) == [v |-> v, tag |-> "Value"]

\* The conversion of a NaN to usize fails, and the unwrap() of idx panics.
NotANumber == [v |-> 0, tag |-> "NotANumber"]

\* Grid::idx(x) for an integer x. With n = 0 the cell size (end - start) / 0 is
\* infinite and the quotient (x - start) / cell_size is 0.
Idx(g, x) ==
    IF x < g.start THEN LowerMin
    ELSE IF x >= g.end THEN GreaterMax
    ELSE IF g.n = 0 THEN CellValue(0)
    ELSE CellValue((x - g.start) \div CellSize(g))

RECURSIVE Pow10(_)
Pow10(k) == IF k <= 0 THEN 1 ELSE 10 * Pow10(k - 1)

\* floor(log10(dt)) for dt >= 1.
RECURSIVE FloorLog10(_)
FloorLog10(dt) == IF dt < 10 THEN 0 ELSE 1 + FloorLog10(dt \div 10)

\* The same index with every lg dt outside the grid put into the nearest cell.
LgDtIdxClamped(g, dt) ==
    IF dt < Pow10(g.start) THEN CellValue(0)
    ELSE IF dt >= Pow10(g.end) THEN CellValue(g.n - 1)
    ELSE CellValue((FloorLog10(dt) - g.start) \div CellSize(g))

\* Grid::idx(log10(dt)) for a grid with start >= 0: log10 of a negative number is
\* NaN, which passes both comparisons; log10(0) is -inf.
LgDtIdx(g, dt) ==
    IF dt < 0 THEN NotANumber
    ELSE IF dt < Pow10(g.start) THEN LowerMin
    ELSE IF dt >= Pow10(g.end) THEN GreaterMax
    ELSE CellValue((FloorLog10(dt) - g.start) \div CellSize(g))

\* Normalisable::clamp.
Clamp(x, min, max) == IF x < min THEN min ELSE IF x <= max THEN x ELSE max

\* Array2::zeros((rows, cols)).
Zeros(rows, cols) == [r \in 1..rows |-> [c \in 1..cols |-> 0]]

\* DmDt::shape.
Shape(d) == <<d.lgdt.n, d.dm.n>>

\* The state of a DmDt: its grids, and the conversion it is running
\*   pc     - "idle", "loop" (the pair (i1, i2) is the next one), "done", "abort";
\*   op     - "points" or "gausses";
\*   t, m, w, erf - the arguments;  a - the matrix.
DmDtNew(lgdt, dm) ==
    [a |-> <<>>, t |-> <<>>, m |-> <<>>, w |-> <<>>, lgdt |-> lgdt, dm |-> dm,
     pc |-> "idle", op |-> "none", erf |-> 0, i1 |-> 0, i2 |-> 0]

NoDmDt == DmDtNew(Grid(0, 1, 1), Grid(0, 1, 1))

----------------------------------------------------------------------------
(* normalise and to_png.  A cell of a float matrix is an integer here and the   *)
(* float arithmetic is exact; the arithmetic of usize cells has the width of    *)
(* usize, an overflow panics in a debug build and wraps in a release build.     *)

\* Normalisable::max_u8().
MaxU8 == 255

RECURSIVE Pow2(_)
Pow2(k) == IF k <= 0 THEN 1 ELSE 2 * Pow2(k - 1)

\* usize::MAX + 1.
Modulus == Pow2(USizeBits)

NRows(a) == Len(a)

NCols(a) == IF a = <<>> THEN 0 ELSE Len(a[1])

\* a.iter().max_by(partial_cmp) of a non-empty matrix.
RECURSIVE SeqMax(_)
SeqMax(s) == IF Len(s) = 1 THEN s[1] ELSE Max2(s[1], SeqMax(Tail(s)))

MatrixMax(a) == SeqMax(Flatten(a))

\* a * T::max_u8(): cell by cell, in the arithmetic of T.
TimesMaxU8(T, build, a) ==
    IF T = "usize" /\ \E r \in 1..NRows(a), c \in 1..NCols(a) : a[r][c] * MaxU8 >= Modulus
    THEN IF build = "debug" THEN Abort
         ELSE Ok([r \in 1..NRows(a) |-> [c \in 1..NCols(a) |-> (a[r][c] * MaxU8) % Modulus]])
    ELSE Ok([r \in 1..NRows(a) |-> [c \in 1..NCols(a) |-> a[r][c] * MaxU8]])

\* normalise: zeros if the maximum is zero, else a * max_u8 / max, clamped, as u8.
Normalise(T, build, a) ==
    LET max == MatrixMax(a)
        product == TimesMaxU8(T, build, a)
    IN  IF max = 0 THEN Ok(Zeros(NRows(a), NCols(a)))
        ELSE IF product.tag = "Abort" THEN Abort
        ELSE Ok([r \in 1..NRows(a) |-> [c \in 1..NCols(a) |->
                    Clamp(product.v[r][c] \div max, 0, MaxU8)]])

\* The matrix as it is.
NotTransposed(a) == a

\* transposed: shape (a.ncols(), a.nrows()), assigned from a.t().
Transposed(a) == [y \in 1..NCols(a) |-> [x \in 1..NRows(a) |-> a[x][y]]]

\* The state of the two functions: the call, its matrix, what it returns; for to_png
\* the width and height of the header and the rows of pixels written.
Image(op, T, build, a, out, width, height) ==
    [a |-> a, op |-> op, T |-> T, build |-> build, out |-> out,
     width |-> width, height |-> height]

\* No matrix has been normalised or written.
NoImage == Image("none", "u8", "release", <<>>, Ok(<<>>), 0, 0)

\* A to_png that writes the matrix as it is, its columns as the width.
ToPngAsIs(a) == Image("to_png", "u8", "release", a, Ok(a), NCols(a), NRows(a))

\* to_png: the header takes its width from transposed.ncols() and its height from
\* transposed.nrows(); the pixels are the rows of transposed.
ToPng(a) ==
    LET transposed == Transposed(a)
    IN  Image("to_png", "u8", "release", a, Ok(transposed),
              NCols(transposed), NRows(transposed))

\* The loops are over: the matrix is returned.
Return(d) == [d EXCEPT !.pc = "done"]

\* break: the inner loop ends, the outer loop takes the next i1 whose inner loop is
\* not empty.
AfterBreak(d) ==
    IF d.i1 + 1 < Len(d.t) THEN [d EXCEPT !.i1 = d.i1 + 1, !.i2 = d.i1 + 2]
    ELSE Return(d)

\* A continue that leaves the inner loop, as break does.
ContinueAsBreak(d) == AfterBreak(d)

\* continue, and the end of the loop body: the inner loop takes the next i2.
AfterContinue(d) ==
    IF d.i2 < Len(d.t) THEN [d EXCEPT !.i2 = d.i2 + 1] ELSE AfterBreak(d)

\* Both counters at their first pair, on a matrix of zeros.
Enter(d, op, t, m, w, erf) ==
    LET e == [d EXCEPT !.op = op, !.t = t, !.m = m, !.w = w, !.erf = erf,
                       !.i1 = 1, !.i2 = 2, !.a = Zeros(d.lgdt.n, d.dm.n)]
    IN  IF Len(t) < 2 THEN Return(e) ELSE [e EXCEPT !.pc = "loop"]

\* a[(r, c)] += 2.
IncrementTwice(a, r, c) == [a EXCEPT ![r + 1][c + 1] = @ + 2]

\* a[(idx_lgdt, idx_dm)] += 1.
Increment(a, r, c) == [a EXCEPT ![r + 1][c + 1] = @ + 1]

\* The body of the inner loop of convert_lc_to_points for the pair (i1, i2).
PointsBody(d) ==
    LET idx_lgdt == LgDtIdx(d.lgdt, d.t[d.i2] - d.t[d.i1])
        idx_dm == Idx(d.dm, d.m[d.i2] - d.m[d.i1])
    IN  CASE idx_lgdt.tag = "NotANumber" -> [d EXCEPT !.pc = "abort"]
          [] idx_lgdt.tag = "LowerMin" -> AfterContinue(d)
          [] idx_lgdt.tag = "GreaterMax" -> AfterBreak(d)
          [] OTHER ->
                IF idx_dm.tag = "Value"
                THEN AfterContinue([d EXCEPT !.a = Increment(@, idx_lgdt.v, idx_dm.v)])
                ELSE AfterContinue(d)

\* One: the value 1 of the cdf, in eighths.
One == 8

\* erf.normal_cdf(dm_border, dm, dm_w): a non-decreasing function of the border that
\* reaches 0 and 1; erf = 1 is the narrower of the two.
NormalCdf(erf, border, dm, dm_w) ==
    IF erf = 1 THEN (Clamp(2 * (border - dm) + dm_w, 0, 2 * dm_w) * One) \div (2 * dm_w)
    ELSE (Clamp(border - dm + dm_w, 0, 2 * dm_w) * One) \div (2 * dm_w)

\* A walk that stops at the first window that ends at 1: what the take_while of
\* convert_lc_to_gausses must not do.
RECURSIVE TakeWhileEndNotOne(_)
TakeWhileEndNotOne(cdf) ==
    IF Len(cdf) < 2 \/ cdf[2] = One THEN <<>>
    ELSE <<cdf[2] - cdf[1]>> \o TakeWhileEndNotOne(Tail(cdf))

\* tuple_windows().take_while(|(a, _b)| !a.is_one()).map(|(a, b)| b - a): the values
\* added to the cells of the row, one per window up to the first that starts at 1.
RECURSIVE TakeWhileNotOne(_)
TakeWhileNotOne(cdf) ==
    IF Len(cdf) < 2 \/ cdf[1] = One THEN <<>>
    ELSE <<cdf[2] - cdf[1]>> \o TakeWhileNotOne(Tail(cdf))

\* row.iter_mut().zip(values).for_each(|(cell, value)| *cell += value).
AddToRow(row, values) ==
    [c \in 1..Len(row) |-> IF c <= Len(values) THEN row[c] + values[c] ELSE row[c]]

\* The body of the inner loop of convert_lc_to_gausses for the pair (i1, i2).
GaussesBody(d) ==
    LET idx_lgdt == LgDtIdx(d.lgdt, d.t[d.i2] - d.t[d.i1])
        dm == d.m[d.i2] - d.m[d.i1]
        dm_w == d.w[d.i1] + d.w[d.i2]
        borders == Borders(d.dm)
        cdf == [k \in 1..Len(borders) |-> NormalCdf(d.erf, borders[k], dm, dm_w)]
    IN  CASE idx_lgdt.tag = "NotANumber" -> [d EXCEPT !.pc = "abort"]
          [] idx_lgdt.tag = "LowerMin" -> AfterContinue(d)
          [] idx_lgdt.tag = "GreaterMax" -> AfterBreak(d)
          [] OTHER ->
                AfterContinue([d EXCEPT !.a[idx_lgdt.v + 1] =
                                            AddToRow(@, TakeWhileNotOne(cdf))])

----------------------------------------------------------------------------
(* Parametrised objects: the evaluators whose constructors take numbers, and  *)
(* the frequency grid of the periodogram (periodogram.rs).  A resolution and  *)
(* a Nyquist factor of PeriodogramFreqFactors are given in halves (r2 = 2 *   *)
(* resolution), so that resolution * factor * N need not be an integer.  A    *)
(* frequency is an exact fraction n / d of pi, with d > 0.                    *)

\* PercentDifferenceMagnitudePercentile::new: assert!(quantile > 0 && quantile < 0.5).
PercentDifferenceMagnitudePercentileAccepts(q1000) == q1000 > 0 /\ q1000 < 500

PercentDifferenceMagnitudePercentileNew(q1000) ==
    Evaluator("PercentDifferenceMagnitudePercentile", <<q1000>>,
              << <<"percent_difference_magnitude_percentile_">> \o Fmt0(q1000, 10) >>)

\* A check of the numerator alone: what MagnitudePercentageRatio::new must not do.
MagnitudePercentageRatioAcceptsNumerator(n1000, d1000) == n1000 > 0 /\ n1000 < 500

\* MagnitudePercentageRatio::new: both quantiles inside (0, 0.5).
MagnitudePercentageRatioAccepts(n1000, d1000) ==
    n1000 > 0 /\ n1000 < 500 /\ d1000 > 0 /\ d1000 < 500

MagnitudePercentageRatioNew(n1000, d1000) ==
    Evaluator("MagnitudePercentageRatio", <<n1000, d1000>>,
              << <<"magnitude_percentage_ratio_">> \o Fmt0(n1000, 10) \o <<"_">>
                     \o Fmt0(d1000, 10) >>)

\* MedianBufferRangePercentage::new: assert!(quantile > 0).
MedianBufferRangePercentageAccepts(q1000) == q1000 > 0

MedianBufferRangePercentageNew(q1000) ==
    Evaluator("MedianBufferRangePercentage", <<q1000>>,
              << <<"median_buffer_range_percentage_">> \o Fmt0(q1000, 10) >>)

\* The evaluators that have set_name.
NamedKinds ==
    {"BeyondNStd", "MagnitudePercentageRatio", "MedianBufferRangePercentage",
     "PercentDifferenceMagnitudePercentile"}

\* PeriodogramFreqFactors::new: assert!(resolution > 0); assert!(nyquist > 0).
PeriodogramFreqFactorsAccepts(r2, q2) == r2 > 0 /\ q2 > 0

\* PeriodogramFreq::Factors(PeriodogramFreqFactors { resolution, nyquist }).
Factors(r2, q2) == [kind |-> "Factors", par |-> <<r2, q2>>]

\* PeriodogramFreqFactors::default(): resolution 10, nyquist 1.
FactorsDefault == Factors(20, 2)

\* PeriodogramFreq::Vector(v): the frequencies as the caller gives them.
Vector(v) == [kind |-> "Vector", par |-> v]

\* A frequency n / d of pi.
Rat(n, d) == [n |-> n, d |-> d]

RatLess(a, b) == a.n * b.d < b.n * a.d

RatLeq(a, b) == a.n * b.d <= b.n * a.d

\* t.get_max() - t.get_min() of a time sample that is not empty.
ObservationTime(t) ==
    LET max == CHOOSE x \in {t[i] : i \in DOMAIN t} : \A i \in DOMAIN t : t[i] <= x
        min == CHOOSE x \in {t[i] : i \in DOMAIN t} : \A i \in DOMAIN t : x <= t[i]
    IN  max - min

\* min_freq = pi / (resolution * observation_time), for resolution and time span > 0.
MinFreq(r2, t) == Rat(2, r2 * ObservationTime(t))

\* max_freq = nyquist * pi * N / observation_time.
MaxFreq(q2, t) == Rat(q2 * Len(t), 2 * ObservationTime(t))

\* The k-th value of the map of PeriodogramFreq::get: min_freq * k.
Omega(r2, t, k) == Rat(MinFreq(r2, t).n * k, MinFreq(r2, t).d)

\* max_freq + min_freq.
TakeLimit(r2, q2, t) ==
    Rat(MaxFreq(q2, t).n * MinFreq(r2, t).d + MinFreq(r2, t).n * MaxFreq(q2, t).d,
        MaxFreq(q2, t).d * MinFreq(r2, t).d)

\* A take_while that stops at max_freq: what PeriodogramFreq::get does not do.
TakeWhileBelowMax(r2, q2, t, omega) == RatLeq(omega, MaxFreq(q2, t))

\* A take_while that tests min_freq, not omega, against the limit.
TakeWhileMinBelow(r2, q2, t, omega) == RatLess(MinFreq(r2, t), TakeLimit(r2, q2, t))

\* The take_while of PeriodogramFreq::get: omega < max_freq + min_freq.
TakeWhileBelow(r2, q2, t, omega) == RatLess(omega, TakeLimit(r2, q2, t))

\* (1..).map(..).take_while(..).collect(), from the counter k on.
RECURSIVE Collect(_, _, _, _)
Collect(r2, q2, t, k) ==
    IF TakeWhileBelow(r2, q2, t, Omega(r2, t, k))
    THEN <<Omega(r2, t, k)>> \o Collect(r2, q2, t, k + 1)
    ELSE <<>>

\* What a call on a parametrised object ends with: the frequencies and powers it
\* returns, an abort, or no end at all (a loop that nothing stops).
Returned(freq, power) == [tag |-> "Ok", freq |-> freq, power |-> power]

Aborted == [tag |-> "Abort", freq |-> <<>>, power |-> <<>>]

Hangs == [tag |-> "Hang", freq |-> <<>>, power |-> <<>>]

\* PeriodogramFreq::get.  With a time span of zero min_freq is infinite and no omega
\* is below the limit; with a resolution of zero likewise; with a negative resolution
\* the omegas decrease from a negative min_freq, and stay below a positive limit for
\* ever.
Get(f, t) ==
    IF f.kind = "Vector" THEN Returned(f.par, <<>>)
    ELSE LET r2 == f.par[1]
             q2 == f.par[2]
         IN  IF ObservationTime(t) = 0 \/ r2 = 0 THEN Returned(<<>>, <<>>)
             ELSE IF r2 < 0 THEN IF q2 > 0 THEN Hangs ELSE Returned(<<>>, <<>>)
             ELSE Returned(Collect(r2, q2, t, 1), <<>>)

\* Periodogram::p_n: zero for a flat series (get_std() is zero), else a power that
\* the model does not compute.
PN(m, omega) ==
    IF \A i, j \in DOMAIN m : m[i] = m[j] THEN "0" ELSE "p_n"

\* periodogram::Periodogram::new(freq, power): assert_eq!(freq.len(), power.len()).
PeriodogramValueNew(freq, power) ==
    IF Len(freq) = Len(power) THEN Returned(freq, power) ELSE Aborted

\* Periodogram::from_time_series.
FromTimeSeries(t, m, f) ==
    LET g == Get(f, t)
    IN  IF g.tag # "Ok" THEN g
        ELSE PeriodogramValueNew(g.freq, [i \in 1..Len(g.freq) |-> PN(m, g.freq[i])])

\* The state of one parametrised object: the object (an evaluator or a frequency
\* source; none after a constructor that aborted), the last operation on it with
\* its arguments, and what that operation ended with.
Inst(obj, op, args, out) == [op |-> op, out |-> out, obj |-> obj, args |-> args]

NoObject == [kind |-> "none", par |-> <<>>]

NoInst == Inst(NoObject, "none", <<>>, Returned(<<>>, <<>>))

\* A constructor call: the object when the arguments are accepted, else an abort.
Constructed(op, args, accepts, obj) ==
    IF accepts THEN Inst(obj, op, args, Returned(<<>>, <<>>))
    ELSE Inst(NoObject, op, args, Aborted)

\* The grid Periodogram::eval (features.rs) works on: periodogram() hands the
\* resolution and the max_freq_factor of the evaluator, as they are, to the grid.
PeriodogramGrid(e, t) == Get(Factors(2 * e.par[2], 2 * e.par[3]), t)

\* A value of a result vector: the exact fraction n / d, or ("signal_to_noise") the
\* signal to noise of the power n within its periodogram, which is not computed.
Number(tag, n, d) == [n |-> n, d |-> d, tag |-> tag]

\* T::zero() and T::nan().
Zero == Number("value", 0, 1)

NaN == Number("NaN", 0, 1)

\* Periodogram::period: 2 pi / omega, for omega the fraction n / d of pi.
Period(omega) == Number("value", 2 * omega.d, omega.n)

\* DataSample::signal_to_noise of the power at index i.
SignalToNoise(power, i) == Number("signal_to_noise", power[i], 1)

\* The local maxima of the power: power[p-1] < power[p] > power[p+1]; the first and
\* the last index never qualify.
LocalMaxima(power) ==
    {p \in 2..Len(power) - 1 : power[p - 1] < power[p] /\ power[p] > power[p + 1]}

\* peak_indices_reverse_sorted: the local maxima by decreasing power.  The order of
\* two maxima of the same power is not laid down: every such order is an outcome.
PeakIndicesReverseSorted(power) ==
    {order \in [1..Cardinality(LocalMaxima(power)) -> LocalMaxima(power)] :
        /\ \A j, k \in DOMAIN order : j # k => order[j] # order[k]
        /\ \A k \in 1..Len(order) - 1 : power[order[k]] >= power[order[k + 1]]}

\* [period(freq[i]), signal_to_noise(power[i])] of every peak, flattened.
PeakPairs(freq, power, order) ==
    Flatten([k \in 1..Len(order) |->
        <<Period(freq[order[k]]), SignalToNoise(power, order[k])>>])

\* The peak entries with NaN, not zero, where the peaks run out.
PeakSlotsNaN(peaks, freq, power, order) ==
    LET pairs == PeakPairs(freq, power, order)
    IN  [j \in 1..2 * peaks |-> IF j <= Len(pairs) THEN pairs[j] ELSE NaN]

\* The leading entries of Periodogram::eval: the pairs of the peaks, then zeros for
\* ever (chain(vec![T::zero()].into_iter().cycle())), cut at take(2 * self.peaks).
PeakSlots(peaks, freq, power, order) ==
    LET pairs == PeakPairs(freq, power, order)
    IN  [j \in 1..2 * peaks |-> IF j <= Len(pairs) THEN pairs[j] ELSE Zero]

\* Periodogram::power: p_n at every frequency of the grid.  It is zero everywhere
\* when the standard deviation of m is zero; any other power is not computed: every
\* vector of small powers is an outcome.
Powers(ts, freq) ==
    IF StdIsZero(ts) THEN {[i \in 1..Len(freq) |-> 0]}
    ELSE [1..Len(freq) -> {0, 1, 2}]

\* The fraction n / d, d > 0, in lowest terms.
RECURSIVE Gcd(_, _)
Gcd(a, b) == IF b = 0 THEN a ELSE Gcd(b, a % b)

Fraction(n, d) ==
    LET g == Gcd(IF n < 0 THEN -n ELSE n, d)
    IN  Number("value", n \div g, d \div g)

\* Sum and product of two fractions, and T::recip of a positive one.
Plus(a, b) == Fraction(a.n * b.d + b.n * a.d, a.d * b.d)

Times(a, b) == Fraction(a.n * b.n, a.d * b.d)

Recip(a) == Fraction(a.d, a.n)

\* Plus or minus infinity.
Infinity(sign) == Number("inf", sign, 1)

\* The key of Bins::bin as the float it is: ((t - offset) / window).floor().  A
\* window of zero divides by zero: plus or minus infinity, and NaN for t = offset.
FloatKey(e, t) ==
    IF e.par[1] > 0 THEN Number("value", BinKey(e, t), 1)
    ELSE IF t - 2 * e.par[2] > 0 THEN Infinity(1)
    ELSE IF t - 2 * e.par[2] < 0 THEN Infinity(-1)
    ELSE NaN

\* The == of two float keys: a NaN equals nothing, itself included.
SameKey(a, b) == a.tag # "NaN" /\ a = b

\* itertools group_by: the run of consecutive elements that starts at i ends where
\* the next key is not the same.
RECURSIVE RunEnd(_, _)
RunEnd(keys, i) ==
    IF i < Len(keys) /\ SameKey(keys[i], keys[i + 1]) THEN RunEnd(keys, i + 1) ELSE i

\* The runs, each as <<first index, last index>>.
RECURSIVE Runs(_, _)
Runs(keys, i) ==
    IF i > Len(keys) THEN <<>>
    ELSE << <<i, RunEnd(keys, i)>> >> \o Runs(keys, RunEnd(keys, i) + 1)

\* bin_t = (x + T::half()) * self.window, in the unit of the times; infinity times
\* zero is NaN.
BinT(e, x) ==
    IF x.tag = "value" THEN Number("value", (2 * x.n + 1) * e.par[1], 1)
    ELSE IF x.tag = "inf" /\ e.par[1] > 0 THEN x
    ELSE NaN

\* group.fold: (n, sum of m * w, sum of w) with w = err2.recip(), over the points
\* i..j of the run.
RECURSIVE Fold(_, _, _, _, _)
Fold(m, err2, i, j, acc) ==
    IF i > j THEN acc
    ELSE LET w == Recip(Fraction(err2[i], 1))
         IN  Fold(m, err2, i + 1, j,
                  <<acc[1] + 1, Plus(acc[2], Times(Fraction(m[i], 1), w)), Plus(acc[3], w)>>)

\* The closure of map in Bins::bin: (bin_t, bin_m, bin_err2) of one run.
BinOf(e, t, m, err2, run) ==
    LET x == FloatKey(e, t[run[1]])
        acc == Fold(m, err2, run[1], run[2], <<0, Zero, Zero>>)
        norm == Recip(acc[3])
    IN  <<BinT(e, x), Times(acc[2], norm), Times(Fraction(acc[1], 1), norm)>>

\* Bins::bin with the values of the bins: one (bin_t, bin_m, bin_err2) per run of
\* equal keys, unzipped into three vectors.
BinValues(e, t, m, err2) ==
    LET runs == Runs([i \in 1..Len(t) |-> FloatKey(e, t[i])], 1)
        bins == [b \in 1..Len(runs) |-> BinOf(e, t, m, err2, runs[b])]
    IN  [t |-> [b \in 1..Len(runs) |-> bins[b][1]],
         m |-> [b \in 1..Len(runs) |-> bins[b][2]],
         err2 |-> [b \in 1..Len(runs) |-> bins[b][3]]]

\* Float arithmetic on exact values: a Number is a fraction ("value"), plus or minus
\* infinity ("inf", n the sign) or NaN.  Zero has no sign here.
IsFinite(x) == x.tag = "value"

Sign(x) == IF x.n > 0 THEN 1 ELSE IF x.n < 0 THEN -1 ELSE 0

\* n / d for integers n and d, as the float division gives it.
Ratio(n, d) ==
    IF d > 0 THEN Fraction(n, d)
    ELSE IF d < 0 THEN Fraction(-n, -d)
    ELSE IF n = 0 THEN NaN ELSE Infinity(IF n > 0 THEN 1 ELSE -1)

Add(a, b) ==
    IF IsFinite(a) /\ IsFinite(b) THEN Plus(a, b)
    ELSE IF a.tag = "NaN" \/ b.tag = "NaN" THEN NaN
    ELSE IF IsFinite(a) THEN b
    ELSE IF IsFinite(b) \/ a = b THEN a
    ELSE NaN

Mul(a, b) ==
    IF IsFinite(a) /\ IsFinite(b) THEN Times(a, b)
    ELSE IF a.tag = "NaN" \/ b.tag = "NaN" \/ Sign(a) = 0 \/ Sign(b) = 0 THEN NaN
    ELSE Infinity(Sign(a) * Sign(b))

Div(a, b) ==
    IF IsFinite(a) /\ IsFinite(b) THEN Ratio(a.n * b.d, a.d * b.n)
    ELSE IF a.tag = "NaN" \/ b.tag = "NaN" \/ (a.tag = "inf" /\ b.tag = "inf") THEN NaN
    ELSE IF IsFinite(a) THEN Zero
    ELSE Infinity(IF Sign(b) < 0 THEN -Sign(a) ELSE Sign(a))

\* T::abs, powi(2) and powi(3).
Absolute(x) == IF IsFinite(x) THEN Fraction(IF x.n < 0 THEN -x.n ELSE x.n, x.d)
               ELSE IF x.tag = "inf" THEN Infinity(1) ELSE NaN

Square(x) == Mul(x, x)

Cube(x) == Mul(x, Mul(x, x))

\* a <= b for two finite values.
AtMost(a, b) == a.n * b.d <= b.n * a.d

\* Iterator::sum of floats.
RECURSIVE SumNumbers(_)
SumNumbers(s) == IF s = <<>> THEN Zero ELSE Add(Head(s), SumNumbers(Tail(s)))

\* DataSample::get_mean and get_std().powi(2): the mean, and the sample variance
\* with the divisor N - 1.
GetMean(m) == Ratio(SumSeq(m), Len(m))

GetStd2(m) ==
    Div(SumNumbers([i \in 1..Len(m) |->
                       Square(Add(Fraction(m[i], 1), Mul(Fraction(-1, 1), GetMean(m))))]),
        Fraction(Len(m) - 1, 1))

\* (m[i] - m[i - 1]) / (t[i] - t[i - 1]) for the pair that ends at the (i+1)-th
\* observation.
Slope(ts, i) == Ratio(ts.m[i + 1] - ts.m[i], ts.t[i + 1] - ts.t[i])

\* A filter that lets everything through.
KeepAll(s) == s

\* .filter(|&x| x.is_finite()).
FiniteOnly(s) == SelectSeq(s, IsFinite)

\* An Eta that divides by N.
EtaValueByN(ts) ==
    IF StdIsZero(ts) THEN Zero
    ELSE Div(Div(SumNumbers([i \in 1..LenU(ts) - 1 |->
                                Square(Fraction(ts.m[i + 1] - ts.m[i], 1))]),
                 Fraction(LenU(ts), 1)),
             GetStd2(ts.m))

\* The value of Eta::eval.
EtaValue(ts) ==
    IF StdIsZero(ts) THEN Zero
    ELSE Div(Div(SumNumbers([i \in 1..LenU(ts) - 1 |->
                                Square(Fraction(ts.m[i + 1] - ts.m[i], 1))]),
                 Fraction(LenU(ts) - 1, 1)),
             GetStd2(ts.m))

\* The value of EtaE::eval.
EtaEValue(ts) ==
    LET sq_slope_sum ==
            SumNumbers(FiniteOnly([i \in 1..LenU(ts) - 1 |-> Square(Slope(ts, i))]))
    IN  IF StdIsZero(ts) THEN Zero
        ELSE Div(Div(Mul(Square(Fraction(ts.t[LenU(ts)] - ts.t[1], 1)), sq_slope_sum),
                     GetStd2(ts.m)),
                 Cube(Fraction(LenU(ts) - 1, 1)))

\* m[i] - m_mean.
Deviation(m, i) == Add(Fraction(m[i], 1), Mul(Fraction(-1, 1), GetMean(m)))

\* The estimator as the doc comment of Kurtosis prints it: the sum of the fourth
\* powers over sigma_m^2, and 3 (N + 1)^2 subtracted.
KurtosisAsDocumented(ts) ==
    LET n == Fraction(LenU(ts), 1)
        n1 == Fraction(LenU(ts) + 1, 1)
        n_1 == Fraction(LenU(ts) - 1, 1)
        n_2 == Fraction(LenU(ts) - 2, 1)
        n_3 == Fraction(LenU(ts) - 3, 1)
        sum4 == SumNumbers([i \in 1..LenU(ts) |-> Square(Square(Deviation(ts.m, i)))])
    IN  IF LenU(ts) <= 3 THEN Abort
        ELSE IF StdIsZero(ts) THEN Ok(<<Zero>>)
        ELSE Ok(<<Add(Div(Mul(Mul(Div(sum4, GetStd2(ts.m)), n), n1),
                          Mul(n_1, Mul(n_2, n_3))),
                      Mul(Fraction(-1, 1),
                          Div(Mul(Fraction(3, 1), Square(n1)), Mul(n_2, n_3))))>>)

\* Kurtosis::eval with its value: assert!(ts.lenu() > 3); zero when get_std() is
\* zero; else sum((x - m_mean)^4) / std^4 * n * n1 / (n_1 * n_2 * n_3)
\* - 3 * n_1^2 / (n_2 * n_3).
KurtosisValue(ts) ==
    LET n == Fraction(LenU(ts), 1)
        n1 == Fraction(LenU(ts) + 1, 1)
        n_1 == Fraction(LenU(ts) - 1, 1)
        n_2 == Fraction(LenU(ts) - 2, 1)
        n_3 == Fraction(LenU(ts) - 3, 1)
        sum4 == SumNumbers([i \in 1..LenU(ts) |-> Square(Square(Deviation(ts.m, i)))])
    IN  IF LenU(ts) <= 3 THEN Abort
        ELSE IF StdIsZero(ts) THEN Ok(<<Zero>>)
        ELSE Ok(<<Add(Div(Mul(Mul(Div(sum4, Square(GetStd2(ts.m))), n), n1),
                          Mul(n_1, Mul(n_2, n_3))),
                      Mul(Fraction(-1, 1),
                          Div(Mul(Fraction(3, 1), Square(n_1)), Mul(n_2, n_3))))>>)

\* T::sqrt of a squared error that is the square of a whole number.
SqrtOfSquare(err2) == Fraction(CHOOSE r \in 0..err2 : r * r = err2, 1)

\* a / T::sqrt(q) for a >= 0 and q > 0, kept exact as the root of a^2 / q
\* (tag "sqrt": the value is the square root of n / d); NaN when q is NaN.
OverSqrt(a, q) ==
    IF IsFinite(a) /\ IsFinite(q) /\ q.n > 0
    THEN LET k2 == Div(Square(a), q) IN Number("sqrt", k2.n, k2.d)
    ELSE NaN

\* TimeSeries::get_m_weighted_mean with its value: sum(m / err2) / sum(1 / err2).
WeightedMeanValue(m, err2) ==
    Div(SumNumbers([i \in 1..Len(m) |-> Ratio(m[i], err2[i])]),
        SumNumbers([i \in 1..Len(m) |-> Ratio(1, err2[i])]))

\* TimeSeries::get_m_reduced_chi2 with its value:
\* sum((m - weighted mean)^2 / err2) / (N - 1).
ReducedChi2Value(m, err2) ==
    Div(SumNumbers([i \in 1..Len(m) |->
                       Div(Square(Add(Fraction(m[i], 1),
                                      Mul(Fraction(-1, 1), WeightedMeanValue(m, err2)))),
                           Fraction(err2[i], 1))]),
        Fraction(Len(m) - 1, 1))

\* The sum of |y - mean| / sqrt(err2) of StetsonK::eval.
StetsonSum(m, err2) ==
    SumNumbers([i \in 1..Len(m) |->
        Div(Absolute(Add(Fraction(m[i], 1),
                         Mul(Fraction(-1, 1), WeightedMeanValue(m, err2)))),
            SqrtOfSquare(err2[i]))])

\* A StetsonK that divides by sqrt(chi2), without the N.
StetsonKWithoutN(m, weights) ==
    IF weights = <<>> THEN <<NaN>>
    ELSE LET err2 == weights[1]
             chi2 == Mul(Fraction(Len(m) - 1, 1), ReducedChi2Value(m, err2))
         IN  IF chi2 = Zero THEN <<Zero>>
             ELSE <<OverSqrt(StetsonSum(m, err2), chi2)>>

\* StetsonK::eval with its value; weights is ts.err2, <<>> for None.
StetsonKValue(m, weights) ==
    IF weights = <<>> THEN <<NaN>>
    ELSE LET err2 == weights[1]
             chi2 == Mul(Fraction(Len(m) - 1, 1), ReducedChi2Value(m, err2))
         IN  IF chi2 = Zero THEN <<Zero>>
             ELSE <<OverSqrt(StetsonSum(m, err2), Mul(Fraction(Len(m), 1), chi2))>>

\* max_by(|a, b| a.partial_cmp(b).unwrap()) of finite values: Some(the largest), or
\* None (<<>>) of none.
MaxBy(s) ==
    IF s = <<>> THEN <<>>
    ELSE <<CHOOSE x \in {s[i] : i \in DOMAIN s} : \A i \in DOMAIN s : AtMost(s[i], x)>>

\* MaximumSlope::eval: the largest finite |slope|; expect panics when there is none.
MaximumSlopeEval(ts) ==
    LET found == MaxBy(FiniteOnly([i \in 1..LenU(ts) - 1 |-> Absolute(Slope(ts, i))]))
    IN  IF found = <<>> THEN Abort ELSE Ok(found)

\* No evaluation yet.
NoNum == [op |-> "none"]

----------------------------------------------------------------------------
(* Specification Spec: evaluators are built and evaluated *)

\* The record of the last call: the operation, the evaluator and inputs, the outcome.
Call(op, e, ts, fill, out) == [e |-> e, ts |-> ts, fill |-> fill, op |-> op, out |-> out]

NoCall == Call("none", Evaluator("none", <<>>, <<>>), TimeSeries(<<>>, <<>>, FALSE), "NaN", Ok(<<>>))

\* Parameters the constructors and setters are called with.
NStdInputs == {0, 10, 30}

QuantileInputs == {100, 250}

PeaksInputs == {0, 2}

WindowInputs == {200}

OffsetInputs == {0, 4}

ResolutionInputs == {1}

FactorInputs == {2}

NameInputs == {<<"kurtosis">>}

Init ==
    /\ feats = <<>>
    /\ last = NoCall
    /\ dd = NoDmDt
    /\ img = NoImage
    /\ inst = NoInst
    /\ num = NoNum

\* A newly constructed evaluator joins the list.
Push(e) ==
    /\ Nodes(feats) < MaxNodes
    /\ feats' = Append(feats, e)
    /\ last' = NoCall
    /\ UNCHANGED <<dd, img, inst, num>>

NewPlain == \E kind \in PlainKinds : Push(PlainNew(kind))

NewBeyondNStd ==
    \E nstd10 \in NStdInputs : BeyondNStdAccepts(nstd10) /\ Push(BeyondNStdNew(nstd10))

NewInterPercentileRange ==
    \E q1000 \in QuantileInputs :
        InterPercentileRangeAccepts(q1000) /\ Push(InterPercentileRangeNew(q1000))

NewPeriodogram ==
    \E peaks \in PeaksInputs : PeriodogramAccepts(peaks) /\ Push(PeriodogramNew(peaks))

NewBins ==
    \E window100 \in WindowInputs, offset100 \in OffsetInputs :
        BinsAccepts(window100) /\ Push(BinsNew(window100, offset100))

NewTransformer == \E mode \in {1, 2} : Push(TransformerNew(mode))

\* The evaluator at position i is replaced by f.
Replace(i, f) ==
    /\ feats' = [feats EXCEPT ![i] = f]
    /\ last' = NoCall
    /\ UNCHANGED <<dd, img, inst, num>>

DoSetName ==
    \E i \in 1..Len(feats), name \in NameInputs :
        /\ feats[i].kind = "BeyondNStd"
        /\ Replace(i, SetName(feats[i], name))

DoSetFreqResolution ==
    \E i \in 1..Len(feats), resolution \in ResolutionInputs :
        /\ feats[i].kind = "Periodogram"
        /\ Replace(i, SetFreqResolution(feats[i], resolution))

DoSetMaxFreqFactor ==
    \E i \in 1..Len(feats), factor \in FactorInputs :
        /\ feats[i].kind = "Periodogram"
        /\ Replace(i, SetMaxFreqFactor(feats[i], factor))

\* add_features: the nested evaluator at position i takes over the evaluators that
\* were built after it, in their order.
DoAddFeatures ==
    \E i \in 1..Len(feats) - 1 :
        /\ feats[i].kind \in NestedKinds
        /\ feats' = Append(SubSeq(feats, 1, i - 1),
                           AddFeatures(feats[i], SubSeq(feats, i + 1, Len(feats))))
        /\ last' = NoCall
        /\ UNCHANGED <<dd, img, inst, num>>

\* The evaluator the calls below are made on.  A call leaves the evaluators as they
\* are, so a call made after another call is that call made first: one call is followed
\* after each step of the construction.
Current == feats[Len(feats)]

DoEval ==
    \E ts \in TsInputs :
        /\ feats # <<>>
        /\ last.op = "none"
        /\ last' = Call("eval", Current, ts, "NaN", Eval(Current, ts))
        /\ UNCHANGED <<feats, dd, img, inst, num>>

DoEvalOrFill ==
    \E ts \in TsInputs, fill \in FillValues :
        /\ feats # <<>>
        /\ last.op = "none"
        /\ last' = Call("eval_or_fill", Current, ts, fill, EvalOrFill(Current, ts, fill))
        /\ UNCHANGED <<feats, dd, img, inst, num>>

DoCheckTsLength ==
    \E ts \in TsInputs :
        /\ feats # <<>>
        /\ last.op = "none"
        /\ last' = Call("check_ts_length", Current, ts, "NaN", CheckTsLength(Current, ts))
        /\ UNCHANGED <<feats, dd, img, inst, num>>

\* The names of the extractor made of the whole list.
DoGetNames ==
    /\ feats # <<>>
    /\ last.op = "none"
    /\ last' = Call("get_names", Current, TimeSeries(<<>>, <<>>, FALSE), "NaN",
                    Ok(Labelled([names |-> ExtractorNames(feats)],
                                [k \in 1..ExtractorSizeHint(feats) |-> "name"])))
    /\ UNCHANGED <<feats, dd, img, inst, num>>

Next ==
    \/ NewPlain
    \/ NewBeyondNStd
    \/ NewInterPercentileRange
    \/ NewPeriodogram
    \/ NewBins
    \/ NewTransformer
    \/ DoSetName
    \/ DoSetFreqResolution
    \/ DoSetMaxFreqFactor
    \/ DoAddFeatures
    \/ DoEval
    \/ DoEvalOrFill
    \/ DoCheckTsLength
    \/ DoGetNames

Spec == Init /\ [][Next]_vars


----------------------------------------------------------------------------
(* Specification SpecDmDt: one conversion of a light curve, pair by pair *)

\* The grids a DmDt is built with, and the light curves it is given.
LgDtGridInputs == {<<0, 2, 1>>, <<0, 2, 2>>, <<1, 3, 2>>, <<2, 2, 1>>}

DmGridInputs == {<<-1, 3, 2>>, <<0, 3, 3>>}

TimeInputs == {0, 1, 100, 120}

MagInputs == {0, 1, 3}

WeightInputs == {1, 2}

ErfInputs == {1, 2}

InitDmDt ==
    /\ feats = <<>>
    /\ last = NoCall
    /\ img = NoImage
    /\ inst = NoInst
    /\ num = NoNum
    /\ \E lg \in LgDtGridInputs, dm \in DmGridInputs :
          /\ GridAccepts(lg[1], lg[2]) /\ GridAccepts(dm[1], dm[2])
          /\ dd = DmDtNew(Grid(lg[1], lg[2], lg[3]), Grid(dm[1], dm[2], dm[3]))

\* convert_lc_to_points(t, m) is called: the matrix is allocated.
ConvertLcToPoints ==
    /\ dd.pc = "idle"
    /\ \E n \in 0..MaxPoints :
          \E t \in [1..n -> TimeInputs], m \in [1..n -> MagInputs] :
              dd' = Enter(dd, "points", t, m, <<>>, 0)
    /\ UNCHANGED <<feats, last, img, inst, num>>

\* One turn of its inner loop.
PointsStep ==
    /\ dd.pc = "loop"
    /\ dd.op = "points"
    /\ dd' = PointsBody(dd)
    /\ UNCHANGED <<feats, last, img, inst, num>>

\* convert_lc_to_gausses(t, m, w, erf) is called: the matrix is allocated.
ConvertLcToGausses ==
    /\ dd.pc = "idle"
    /\ \E n \in 0..MaxPoints, w \in WeightInputs, erf \in ErfInputs :
          \E t \in [1..n -> TimeInputs], m \in [1..n -> MagInputs] :
              dd' = Enter(dd, "gausses", t, m, [i \in 1..n |-> w], erf)
    /\ UNCHANGED <<feats, last, img, inst, num>>

\* One turn of its inner loop.
GaussesStep ==
    /\ dd.pc = "loop"
    /\ dd.op = "gausses"
    /\ dd' = GaussesBody(dd)
    /\ UNCHANGED <<feats, last, img, inst, num>>

NextDmDt ==
    \/ ConvertLcToPoints
    \/ PointsStep
    \/ ConvertLcToGausses
    \/ GaussesStep

SpecDmDt == InitDmDt /\ [][NextDmDt]_vars

----------------------------------------------------------------------------
(* Specification SpecImage: a matrix is normalised and written as a PNG *)

\* The cells of the matrices given to normalise.
CellInputs == {0, 1, 3, Modulus \div 2}

TypeInputs == {"usize", "f64"}

BuildInputs == {"debug", "release"}

Matrices ==
    UNION {[1..rows -> [1..cols -> CellInputs]] : rows \in 1..MaxRows, cols \in 1..MaxCols}

InitImage ==
    /\ feats = <<>>
    /\ last = NoCall
    /\ dd = NoDmDt
    /\ img = NoImage
    /\ inst = NoInst
    /\ num = NoNum

\* normalise of a matrix; one matrix is followed through normalise and to_png.
DoNormalise ==
    /\ img.op = "none"
    /\ \E T \in TypeInputs, build \in BuildInputs, a \in Matrices :
          img' = Image("normalise", T, build, a, Normalise(T, build, a), 0, 0)
    /\ UNCHANGED <<feats, last, dd, inst, num>>

\* to_png of the matrix normalise has returned.
DoToPng ==
    /\ img.op = "normalise"
    /\ img.out.tag = "Ok"
    /\ img' = ToPng(img.out.v)
    /\ UNCHANGED <<feats, last, dd, inst, num>>

NextImage ==
    \/ DoNormalise
    \/ DoToPng

SpecImage == InitImage /\ [][NextImage]_vars

----------------------------------------------------------------------------
(* Specification SpecParams: one parametrised object is constructed, changed *)
(* by its setters, and used                                                  *)

\* Arguments of the constructors and setters, in range and out of range.
QuantileArgs == {-100, 0, 50, 250, 500, 600}

BufferArgs == {-100, 0, 100, 700}

WindowArgs == {-100, 0, 100, 200}

ResolutionArgs == {-1, 0, 1, 10}

FactorArgs == {-1, 0, 1, 2}

HalfResolutionArgs == {-2, 0, 2, 3, 20}

HalfNyquistArgs == {-2, 0, 1, 2, 3}

FrequencyArgs == {1, 2}

\* Arguments <<start, end, n>> of Grid::new, and the values handed to idx.
GridArgs == {<<0, 4, 0>>, <<0, 4, 1>>, <<0, 4, 2>>, <<-2, 2, 2>>, <<-1, 3, 4>>,
             <<1, 1, 1>>, <<2, 0, 1>>}

IdxArgs == -3..5

\* Time samples of 1..MaxLen points, evenly spaced (step 0: all times equal).
TimeSamples == {[i \in 1..n |-> step * (i - 1)] : n \in 1..MaxLen, step \in {0, 1, 3}}

\* Magnitudes of n points: flat, or rising.
Magnitudes(n) == {[i \in 1..n |-> 0], [i \in 1..n |-> i]}

\* Vectors of up to two frequencies, in any order.
FrequencyVectors ==
    UNION {[1..n -> {Rat(x, 1) : x \in FrequencyArgs}] : n \in 0..2}

InitParams ==
    /\ feats = <<>>
    /\ last = NoCall
    /\ dd = NoDmDt
    /\ img = NoImage
    /\ inst = NoInst
    /\ num = NoNum

Becomes(i) ==
    /\ inst' = i
    /\ UNCHANGED <<feats, last, dd, img, num>>

ParamsNewBeyondNStd ==
    \E nstd10 \in NStdInputs :
        Becomes(Constructed("BeyondNStd::new", <<nstd10>>,
                            BeyondNStdAccepts(nstd10), BeyondNStdNew(nstd10)))

ParamsNewInterPercentileRange ==
    \E q1000 \in QuantileArgs :
        Becomes(Constructed("InterPercentileRange::new", <<q1000>>,
                            InterPercentileRangeAccepts(q1000),
                            InterPercentileRangeNew(q1000)))

ParamsNewPercentDifferenceMagnitudePercentile ==
    \E q1000 \in QuantileArgs :
        Becomes(Constructed("PercentDifferenceMagnitudePercentile::new", <<q1000>>,
                            PercentDifferenceMagnitudePercentileAccepts(q1000),
                            PercentDifferenceMagnitudePercentileNew(q1000)))

ParamsNewMagnitudePercentageRatio ==
    \E n1000 \in QuantileArgs, d1000 \in QuantileArgs :
        Becomes(Constructed("MagnitudePercentageRatio::new", <<n1000, d1000>>,
                            MagnitudePercentageRatioAccepts(n1000, d1000),
                            MagnitudePercentageRatioNew(n1000, d1000)))

ParamsNewMedianBufferRangePercentage ==
    \E q1000 \in BufferArgs :
        Becomes(Constructed("MedianBufferRangePercentage::new", <<q1000>>,
                            MedianBufferRangePercentageAccepts(q1000),
                            MedianBufferRangePercentageNew(q1000)))

ParamsNewPeriodogram ==
    \E peaks \in PeaksInputs :
        Becomes(Constructed("Periodogram::new", <<peaks>>,
                            PeriodogramAccepts(peaks), PeriodogramNew(peaks)))

ParamsNewBins ==
    \E window100 \in WindowArgs, offset100 \in OffsetInputs :
        Becomes(Constructed("Bins::new", <<window100, offset100>>,
                            BinsAccepts(window100), BinsNew(window100, offset100)))

\* The Default implementations: each calls new with a constant.
ParamsDefault ==
    \E e \in {BeyondNStdNew(10), InterPercentileRangeNew(250),
              MagnitudePercentageRatioNew(400, 50), MedianBufferRangePercentageNew(100),
              PercentDifferenceMagnitudePercentileNew(50), PeriodogramNew(1),
              BinsNew(100, 0)} :
        Becomes(Inst(e, "default", <<>>, Returned(<<>>, <<>>)))

ParamsSetName ==
    \E name \in NameInputs :
        /\ inst.obj.kind \in NamedKinds
        /\ Becomes(Inst(SetName(inst.obj, name), "set_name", <<name>>, Returned(<<>>, <<>>)))

ParamsSetFreqResolution ==
    \E resolution \in ResolutionArgs :
        /\ inst.obj.kind = "Periodogram"
        /\ Becomes(Inst(SetFreqResolution(inst.obj, resolution), "set_freq_resolution",
                        <<resolution>>, Returned(<<>>, <<>>)))

ParamsSetMaxFreqFactor ==
    \E factor \in FactorArgs :
        /\ inst.obj.kind = "Periodogram"
        /\ Becomes(Inst(SetMaxFreqFactor(inst.obj, factor), "set_max_freq_factor",
                        <<factor>>, Returned(<<>>, <<>>)))

\* Periodogram::eval of the evaluator, as far as its frequency grid.
ParamsEval ==
    \E t \in TimeSamples :
        /\ inst.obj.kind = "Periodogram"
        /\ inst.op # "eval"
        /\ Becomes(Inst(inst.obj, "eval", <<t>>, PeriodogramGrid(inst.obj, t)))

ParamsNewFactors ==
    \E r2 \in HalfResolutionArgs, q2 \in HalfNyquistArgs :
        Becomes(Constructed("PeriodogramFreqFactors::new", <<r2, q2>>,
                            PeriodogramFreqFactorsAccepts(r2, q2), Factors(r2, q2)))

ParamsFactorsDefault ==
    Becomes(Inst(FactorsDefault, "PeriodogramFreqFactors::default", <<>>,
                 Returned(<<>>, <<>>)))

ParamsNewVector ==
    \E v \in FrequencyVectors :
        Becomes(Inst(Vector(v), "PeriodogramFreq::Vector", <<v>>, Returned(<<>>, <<>>)))

\* PeriodogramFreq::get on the frequency source.
ParamsGet ==
    \E t \in TimeSamples :
        /\ inst.obj.kind \in {"Factors", "Vector"}
        /\ inst.op \notin {"get", "from_time_series"}
        /\ Becomes(Inst(inst.obj, "get", <<t>>, Get(inst.obj, t)))

\* Periodogram::from_time_series with the frequency source.
ParamsFromTimeSeries ==
    \E t \in TimeSamples :
        \E m \in Magnitudes(Len(t)) :
            /\ inst.obj.kind \in {"Factors", "Vector"}
            /\ inst.op \notin {"get", "from_time_series"}
            /\ Becomes(Inst(inst.obj, "from_time_series", <<t, m>>,
                            FromTimeSeries(t, m, inst.obj)))

\* periodogram::Periodogram::new with vectors of the caller.
ParamsPeriodogramValueNew ==
    \E freq \in FrequencyVectors, n \in 0..2 :
        Becomes(Inst(NoObject, "periodogram::Periodogram::new",
                     <<freq, [i \in 1..n |-> "p_n"]>>,
                     PeriodogramValueNew(freq, [i \in 1..n |-> "p_n"])))

\* The grid as a constructed object.
GridNew(start, end, n) == [kind |-> "Grid", par |-> <<start, end, n>>]

GridOf(obj) == Grid(obj.par[1], obj.par[2], obj.par[3])

ParamsNewGrid ==
    \E a \in GridArgs :
        Becomes(Constructed("Grid::new", a, GridAccepts(a[1], a[2]),
                            GridNew(a[1], a[2], a[3])))

\* Grid::idx on the constructed grid.
ParamsIdx ==
    \E x \in IdxArgs :
        /\ inst.obj.kind = "Grid"
        /\ Becomes(Inst(inst.obj, "idx", <<x>>, Idx(GridOf(inst.obj), x)))

NextParams ==
    \/ ParamsNewBeyondNStd
    \/ ParamsNewInterPercentileRange
    \/ ParamsNewPercentDifferenceMagnitudePercentile
    \/ ParamsNewMagnitudePercentageRatio
    \/ ParamsNewMedianBufferRangePercentage
    \/ ParamsNewPeriodogram
    \/ ParamsNewBins
    \/ ParamsDefault
    \/ ParamsSetName
    \/ ParamsSetFreqResolution
    \/ ParamsSetMaxFreqFactor
    \/ ParamsEval
    \/ ParamsNewFactors
    \/ ParamsFactorsDefault
    \/ ParamsNewVector
    \/ ParamsGet
    \/ ParamsFromTimeSeries
    \/ ParamsPeriodogramValueNew
    \/ ParamsNewGrid
    \/ ParamsIdx

SpecParams == InitParams /\ [][NextParams]_vars

----------------------------------------------------------------------------
(* Specification SpecValues: one evaluation on a series whose times and      *)
(* magnitudes are given numbers                                              *)

\* The times of a series: n of them, never decreasing, repetitions included.
ValueTimes(n) ==
    {t \in [1..n -> {0, 200, 400}] : \A i \in 1..n - 1 : t[i] <= t[i + 1]}

\* The input series: flat ones and others, with or without weights.
ValueSeries ==
    {TimeSeries(tm[1], tm[2], hw) :
        tm \in UNION {ValueTimes(n) \X [1..n -> {0, 1}] : n \in 0..MaxLen},
        hw \in BOOLEAN}

\* The evaluators that need the weights, Bins apart.
WeightKinds == {"StetsonK", "LinearFit", "WeightedMean", "ReducedChi2"}

\* The evaluators that return zero on a flat series.
FlatKinds == {"Cusum", "Eta", "EtaE", "Kurtosis", "Skew"}

\* The evaluator that new() gives for a kind without parameters.
New(kind) == IF kind \in ValueKinds THEN ValueNew(kind) ELSE PlainNew(kind)

\* The sub-features given to Bins::add_features.
BinsFeatures ==
    {<<>>, <<New("Kurtosis")>>, <<New("StetsonK"), New("LinearFit")>>,
     <<New("WeightedMean"), BinsNew(100, 0)>>}

InitValues ==
    /\ feats = <<>>
    /\ last = NoCall
    /\ dd = NoDmDt
    /\ img = NoImage
    /\ inst = NoInst
    /\ num = NoNum

Evaluated(n) ==
    /\ num' = n
    /\ UNCHANGED <<feats, last, dd, img, inst>>

\* eval of StetsonK, LinearFit, WeightedMean or ReducedChi2.
ValuesEvalWeights ==
    /\ num.op = "none"
    /\ \E kind \in WeightKinds, ts \in ValueSeries :
        Evaluated(Call("eval", New(kind), ts, "NaN", Eval(New(kind), ts)))

\* eval of Bins, built with a window and sub-features.
ValuesEvalBins ==
    /\ num.op = "none"
    /\ \E window \in {100, 200}, fs \in BinsFeatures, ts \in ValueSeries :
        LET e == AddFeatures(BinsNew(window, 0), fs)
        IN  Evaluated(Call("eval", e, ts, "NaN", Eval(e, ts)))

\* eval of Cusum, Eta, EtaE, Kurtosis or Skew.
ValuesEvalFlat ==
    /\ num.op = "none"
    /\ \E kind \in FlatKinds, ts \in ValueSeries :
        Evaluated(Call("eval", New(kind), ts, "NaN", Eval(New(kind), ts)))

\* The series given to Periodogram::eval: evenly spaced, flat or not, no weights.
PeakSeries ==
    {TimeSeries([i \in 1..n |-> 200 * (i - 1)], [i \in 1..n |-> (i % 2) * step], FALSE) :
        n \in 2..MaxPeakLen, step \in {0, 1}}

\* eval of Periodogram::new(peaks) without sub-features, and of Periodogram::new(1)
\* on the same series (tests::periodogram_one_peak_vs_two_peaks).
ValuesEvalPeriodogram ==
    /\ num.op = "none"
    /\ \E peaks \in 1..3, resolution \in {1, 2}, ts \in PeakSeries :
        LET e == SetFreqResolution(PeriodogramNew(peaks), resolution)
            freq == PeriodogramGrid(e, ts.t).freq
        IN  \E power \in Powers(ts, freq) :
                \E order \in PeakIndicesReverseSorted(power) :
                    Evaluated([e |-> e, ts |-> ts, op |-> "eval_peaks",
                               out |-> PeakSlots(e.par[1], freq, power, order),
                               freq |-> freq, power |-> power,
                               one |-> PeakSlots(1, freq, power, order)])

\* The magnitudes and the squared errors given to Bins::bin.
BinMagnitudes(n) == {[i \in 1..n |-> i], [i \in 1..n |-> 1]}

BinErrors(n) == [1..n -> {1, 2}]

\* Bins::bin of Bins::new(window, offset) on the three slices of a series.
ValuesBin ==
    /\ num.op = "none"
    /\ \E window \in {0, 100, 150}, offset \in {0, 50}, n \in 0..MaxLen :
        \E t \in ValueTimes(n), m \in BinMagnitudes(n), err2 \in BinErrors(n) :
            /\ BinsAccepts(window)
            /\ Evaluated([e |-> BinsNew(window, offset), t |-> t, m |-> m,
                          op |-> "bin", out |-> BinValues(BinsNew(window, offset), t, m, err2),
                          err2 |-> err2])

\* The series whose slopes are computed: times in whole units, never decreasing,
\* repetitions included; magnitudes 0, 1, 2; no weights.
SlopeSeries(shortest) ==
    {TimeSeries(tm[1], tm[2], FALSE) :
        tm \in UNION {{t \in [1..n -> 0..3] : \A i \in 1..n - 1 : t[i] <= t[i + 1]}
                          \X [1..n -> 0..2] : n \in shortest..MaxLen}}

\* eval of Eta and of EtaE on the same series (tests::eta_is_eta_e_for_even_grid).
ValuesEvalEta ==
    /\ num.op = "none"
    /\ \E ts \in SlopeSeries(2) :
        Evaluated([ts |-> ts, op |-> "eval_eta", eta |-> EtaValue(ts),
                   eta_e |-> EtaEValue(ts)])

\* eval of MaximumSlope.
ValuesEvalMaximumSlope ==
    /\ num.op = "none"
    /\ \E ts \in SlopeSeries(0) :
        Evaluated([ts |-> ts, op |-> "eval_maximum_slope", out |-> MaximumSlopeEval(ts)])

\* The series whose moments are computed: 0..MaxMomentLen magnitudes out of 0, 1,
\* 2 at the times 1, 2, ..; no weights.
MomentSeries ==
    {TimeSeries([i \in 1..Len(m) |-> i], m, FALSE) :
        m \in UNION {[1..n -> 0..2] : n \in 0..MaxMomentLen}}

\* eval of Kurtosis.
ValuesEvalKurtosis ==
    /\ num.op = "none"
    /\ \E ts \in MomentSeries :
        Evaluated([ts |-> ts, op |-> "eval_kurtosis", out |-> KurtosisValue(ts)])

\* The errors of the observations whose StetsonK is computed; err2 is their square.
ErrInputs == {1, 2}

\* eval of StetsonK with its value, with weights and without.
ValuesEvalStetsonK ==
    /\ num.op = "none"
    /\ \E n \in 0..MaxLen :
        \E m \in [1..n -> 0..2], err \in [1..n -> ErrInputs], hw \in BOOLEAN :
            LET weights == IF hw THEN <<[i \in 1..n |-> err[i] * err[i]]>> ELSE <<>>
            IN  Evaluated([m |-> m, op |-> "eval_stetson_k",
                           out |-> StetsonKValue(m, weights), weights |-> weights])

NextValues ==
    \/ ValuesEvalWeights
    \/ ValuesEvalBins
    \/ ValuesEvalFlat
    \/ ValuesEvalPeriodogram
    \/ ValuesBin
    \/ ValuesEvalEta
    \/ ValuesEvalMaximumSlope
    \/ ValuesEvalKurtosis
    \/ ValuesEvalStetsonK

SpecValues == InitValues /\ [][NextValues]_vars

----------------------------------------------------------------------------
(* Specification SpecGrid: Periodogram::from_time_series with a frequency    *)
(* source built by PeriodogramFreqFactors::new, one turn of its iterators at *)
(* a time.  The steps of a call follow each other without a scheduler, so    *)
(* every step that can be taken is taken: weak fairness on each.             *)

\* The resolutions and Nyquist factors given to PeriodogramFreqFactors::new, in
\* halves.
GridResolutionArgs == {0, 1, 2, 3, 6}

GridNyquistArgs == {-2, 1, 2, 3}

\* No walk takes as many turns as this: above it the iteration is not followed.
StepLimit == 6 * MaxLen

\* The call in progress
\*   pc    - "none", "idle" (the source exists), "get" (the iterator of get is at
\*           the counter k), "power" (the map over freq), "new", "done", "abort";
\*   freq, power - what has been collected.
Walk(obj, pc, args, k, freq, power, out) ==
    [k |-> k, pc |-> pc, out |-> out, freq |-> freq, power |-> power, obj |-> obj,
     args |-> args]

InitGrid ==
    /\ feats = <<>>
    /\ last = NoCall
    /\ dd = NoDmDt
    /\ img = NoImage
    /\ num = NoNum
    /\ inst = Walk(NoObject, "none", <<>>, 0, <<>>, <<>>, Returned(<<>>, <<>>))

Walks(w) ==
    /\ inst' = w
    /\ UNCHANGED <<feats, last, dd, img, num>>

\* PeriodogramFreqFactors::new, wrapped in PeriodogramFreq::Factors.
GridNewFactors ==
    /\ inst.pc = "none"
    /\ \E r2 \in GridResolutionArgs, q2 \in GridNyquistArgs :
          IF PeriodogramFreqFactorsAccepts(r2, q2)
          THEN Walks([inst EXCEPT !.obj = Factors(r2, q2), !.pc = "idle"])
          ELSE Walks([inst EXCEPT !.pc = "abort", !.out = Aborted])

\* from_time_series is called: freq.get(&mut ts.t) starts its iterator at 1.
GridFromTimeSeries ==
    /\ inst.pc = "idle"
    /\ \E t \in TimeSamples :
          \E m \in Magnitudes(Len(t)) :
              Walks([inst EXCEPT !.pc = "get", !.args = <<t, m>>, !.k = 1])

\* Whether take_while lets the k-th omega through; with a time span of zero
\* min_freq, and so omega and the limit, are infinite, and inf < inf is false.
StillBelow(f, t, k) ==
    /\ ObservationTime(t) > 0
    /\ TakeWhileBelow(f.par[1], f.par[2], t, Omega(f.par[1], t, k))

\* One turn of (1..).map(..).take_while(..).collect().
GridGetStep ==
    /\ inst.pc = "get"
    /\ inst.k <= StepLimit
    /\ IF StillBelow(inst.obj, inst.args[1], inst.k)
       THEN Walks([inst EXCEPT !.freq = Append(@, Omega(inst.obj.par[1], inst.args[1], inst.k)),
                               !.k = @ + 1])
       ELSE Walks([inst EXCEPT !.pc = "power"])

\* One turn of freq.iter().map(|&omega| Self::p_n(ts, omega)).collect().
GridPowerStep ==
    /\ inst.pc = "power"
    /\ IF Len(inst.power) < Len(inst.freq)
       THEN Walks([inst EXCEPT !.power =
                       Append(@, PN(inst.args[2], inst.freq[Len(inst.power) + 1]))])
       ELSE Walks([inst EXCEPT !.pc = "new"])

\* Self::new(freq, power).
GridNewPeriodogram ==
    /\ inst.pc = "new"
    /\ Walks([inst EXCEPT !.pc = "done",
                          !.out = PeriodogramValueNew(inst.freq, inst.power)])

NextGrid ==
    \/ GridNewFactors
    \/ GridFromTimeSeries
    \/ GridGetStep
    \/ GridPowerStep
    \/ GridNewPeriodogram

SpecGrid ==
    /\ InitGrid
    /\ [][NextGrid]_vars
    /\ WF_vars(GridGetStep)
    /\ WF_vars(GridPowerStep)
    /\ WF_vars(GridNewPeriodogram)

----------------------------------------------------------------------------
(* Properties *)

\* C1: a series shorter than min_ts_length() makes eval return
\* ShortTimeSeries{actual: N, minimum: min_ts_length()}, never values and never an
\* abort; check_ts_length rejects exactly the series with N < min_ts_length() and
\* reports min_ts_length() as the minimum.
C1_ShortSeriesRejected ==
    /\ (last.op = "eval" /\ LenU(last.ts) < MinTsLength(last.e))
          => last.out = Err(ShortTimeSeries(LenU(last.ts), MinTsLength(last.e)))
    /\ last.op = "check_ts_length"
          => /\ (last.out.tag = "Err") <=> (LenU(last.ts) < MinTsLength(last.e))
             /\ last.out.tag = "Err" => last.out.err.minimum = MinTsLength(last.e)


\* The names add_features derives from the sub-features, in the order they were added.
SubNames(e) ==
    Flatten([k \in 1..Len(e.subs) |->
        [j \in 1..Len(GetNames(e.subs[k])) |-> NamePrefix(e) \o GetNames(e.subs[k])[j]]])

\* C2: a successful eval returns size_hint() values, get_names() has the same length,
\* and the i-th name belongs to the i-th value: peak names first, then the names of
\* the sub-features in the order they were added.
C2_SizeNamesValuesAligned ==
    (last.op = "eval" /\ last.out.tag = "Ok") =>
        /\ Len(last.out.v) = SizeHint(last.e)
        /\ Len(GetNames(last.e)) = SizeHint(last.e)
        /\ \A i \in 1..Len(last.out.v) :
              \/ last.out.v[i].lab = GetNames(last.e)[i]
              \/ last.out.v[i] = Value(<<>>, "NaN")
        /\ last.e.kind = "Periodogram" =>
              GetNames(last.e) = PeakNames(last.e.par[1]) \o SubNames(last.e)
        /\ last.e.kind = "Bins" => GetNames(last.e) = SubNames(last.e)

\* A periodogram with changed resolution and two sub-features, one of them with three
\* names, has been evaluated successfully.
C2_Witness ==
    /\ last.op = "eval"
    /\ last.out.tag = "Ok"
    /\ last.e.kind = "Periodogram"
    /\ last.e.par[2] = 1
    /\ Len(last.e.subs) = 2
    /\ last.e.subs[1].kind = "LinearFit"
    /\ Len(last.out.v) = 8
    /\ LenU(last.ts) = MaxLen

\* C3: eval_or_fill returns a vector of exactly size_hint() entries for every
\* evaluator, time series and fill value.
C3_EvalOrFillLength ==
    last.op = "eval_or_fill" =>
        /\ last.out.tag = "Ok"
        /\ Len(last.out.v) = SizeHint(last.e)

Segment(e, v, k) ==
    LET off == ExtractorSizeHint(SubSeq(e.subs, 1, k - 1))
    IN  SubSeq(v, off + 1, off + SizeHint(e.subs[k]))

Distinct(names) ==
    \A i, j \in 1..Len(names) : i # j => names[i] # names[j]

\* C5 as stated: the names reported by a feature extractor are pairwise distinct for
\* every list of evaluators.
C5_NamesDistinct ==
    last.op = "get_names" =>
        Distinct([i \in 1..Len(last.out.v) |-> last.out.v[i].lab])

\* The kind of an evaluator with its parameters as the name templates print them.
NameKey(e) ==
    CASE e.kind \in {"BeyondNStd", "InterPercentileRange"} -> <<e.kind>> \o Fmt0(e.par[1], 10)
      [] e.kind = "Bins" -> <<e.kind>> \o Fmt1(e.par[1]) \o <<"/">> \o Fmt1(e.par[2])
      [] OTHER -> <<e.kind>>

\* No name was replaced by set_name and, in the list and in the sub-features of every
\* nested evaluator, no two evaluators have the same kind and printed parameters.
RECURSIVE DistinctKeys(_)
DistinctKeys(fs) ==
    /\ Distinct([k \in 1..Len(fs) |-> NameKey(fs[k])])
    /\ \A k \in 1..Len(fs) :
          /\ fs[k].kind = "BeyondNStd" => fs[k].names = <<BeyondName(fs[k].par[1])>>
          /\ DistinctKeys(fs[k].subs)

\* C5, amended: the names are pairwise distinct for every list of evaluators in which
\* no name was replaced by set_name and in which, at every level, no two evaluators
\* have the same kind and the same parameters as the templates print them.
C5_NamesDistinctAmended ==
    (last.op = "get_names" /\ DistinctKeys(feats)) =>
        Distinct([i \in 1..Len(last.out.v) |-> last.out.v[i].lab])

\* The names of two BeyondNStd with different printed parameters and of a nested
\* evaluator with a sub-feature have been reported.
C5_Witness ==
    /\ last.op = "get_names"
    /\ DistinctKeys(feats)
    /\ Len(feats) = 2
    /\ feats[1].kind = "BeyondNStd"
    /\ feats[2].kind = "Bins"
    /\ Len(feats[2].subs) = 1
    /\ feats[2].subs[1].kind = "BeyondNStd"
    /\ feats[2].subs[1].par # feats[1].par


\* Non-decreasing times.
Sorted(t) == \A i \in 1..Len(t) - 1 : t[i] <= t[i + 1]

\* The index pairs i < j of a light curve.
Pairs(t) == {p \in (1..Len(t)) \X (1..Len(t)) : p[1] < p[2]}

\* log10(dt) lies in cell r of the lgdt grid: border r <= log10(dt) < border r + 1.
InLgDtCell(g, dt, r) ==
    /\ dt >= Pow10(g.start + r * CellSize(g))
    /\ dt < Pow10(g.start + (r + 1) * CellSize(g))

\* dm lies in cell c of the dm grid.
InDmCell(g, dm, c) ==
    /\ dm >= g.start + c * CellSize(g)
    /\ dm < g.start + (c + 1) * CellSize(g)

\* The pairs a scan of all pairs puts into cell (r, c).
PairsIn(d, r, c) ==
    {p \in Pairs(d.t) : /\ InLgDtCell(d.lgdt, d.t[p[2]] - d.t[p[1]], r)
                        /\ InDmCell(d.dm, d.m[p[2]] - d.m[p[1]], c)}

\* The pairs whose log10(dt) lies in row r.
RowPairs(d, r) == {p \in Pairs(d.t) : InLgDtCell(d.lgdt, d.t[p[2]] - d.t[p[1]], r)}

MatrixSum(a) == SumSeq([r \in 1..Len(a) |-> SumSeq(a[r])])

\* C6: for non-decreasing t, convert_lc_to_points returns a matrix of shape
\* (n_lgdt, n_dm) whose cell (r, c) is the number of pairs i < j with log10(t_j - t_i)
\* in lgdt cell r and m_j - m_i in dm cell c: the break loses no pair.
C6_PointsEqualFullScan ==
    (dd.op = "points" /\ dd.pc = "done" /\ Sorted(dd.t)) =>
        /\ Len(dd.a) = Shape(dd)[1]
        /\ \A r \in 1..Len(dd.a) : Len(dd.a[r]) = Shape(dd)[2]
        /\ \A r \in 0..dd.lgdt.n - 1, c \in 0..dd.dm.n - 1 :
              dd.a[r + 1][c + 1] = Cardinality(PairsIn(dd, r, c))

\* A sorted light curve of full length whose first pair is at or above the lgdt range
\* (the inner loop breaks, leaving out the pair (1, 3)) and whose pair (2, 3) is counted.
C6_Witness ==
    /\ dd.op = "points"
    /\ dd.pc = "done"
    /\ Sorted(dd.t)
    /\ Len(dd.t) = MaxPoints
    /\ dd.t[2] - dd.t[1] >= Pow10(dd.lgdt.end)
    /\ MatrixSum(dd.a) >= 1

\* The pairs the loops have gone through.
Visited(d) ==
    IF d.pc = "done" THEN Pairs(d.t)
    ELSE {p \in Pairs(d.t) : p[1] < d.i1 \/ (p[1] = d.i1 /\ p[2] < d.i2)}

\* Whether both grids cover the pair.
Covered(d, p) ==
    /\ d.t[p[2]] - d.t[p[1]] >= Pow10(d.lgdt.start)
    /\ d.t[p[2]] - d.t[p[1]] < Pow10(d.lgdt.end)
    /\ d.m[p[2]] - d.m[p[1]] >= d.dm.start
    /\ d.m[p[2]] - d.m[p[1]] < d.dm.end

\* C7: the sum of the cells of convert_lc_to_points is at most N(N-1)/2 for every
\* input, a pair adding at most 1; for non-decreasing t it is N(N-1)/2 exactly when
\* both grids cover every pair.
C7_SumAtMostPairs ==
    dd.op = "points" =>
        /\ MatrixSum(dd.a) <= Cardinality(Visited(dd))
        /\ 2 * MatrixSum(dd.a) <= Len(dd.t) * (Len(dd.t) - 1)
        /\ (dd.pc = "done" /\ Sorted(dd.t)) =>
              ((2 * MatrixSum(dd.a) = Len(dd.t) * (Len(dd.t) - 1))
                  <=> (\A p \in Pairs(dd.t) : Covered(dd, p)))

\* A sorted light curve of full length, all of whose pairs are covered, spread over two
\* cells.
C7_Witness ==
    /\ dd.op = "points"
    /\ dd.pc = "done"
    /\ Sorted(dd.t)
    /\ Len(dd.t) = MaxPoints
    /\ 2 * MatrixSum(dd.a) = MaxPoints * (MaxPoints - 1)
    /\ \E r \in 1..Len(dd.a), c \in 1..dd.dm.n : dd.a[r][c] = 1

\* C8: for non-decreasing t and a cdf that is non-decreasing in the border, every cell
\* of convert_lc_to_gausses is non-negative and the sum of row r is at most the number
\* of pairs whose log10(dt) lies in lgdt cell r; pairs outside the lgdt range add to
\* no row.
C8_GaussesRowSums ==
    (dd.op = "gausses" /\ Sorted(dd.t)) =>
        \A r \in 1..Len(dd.a) :
            /\ \A c \in 1..Len(dd.a[r]) : dd.a[r][c] >= 0
            /\ SumSeq(dd.a[r]) <= One * Cardinality(RowPairs(dd, r - 1))

\* A finished conversion with a row that holds part of the probability of its pairs,
\* and a pair outside the lgdt range.
C8_Witness ==
    /\ dd.op = "gausses"
    /\ dd.pc = "done"
    /\ Sorted(dd.t)
    /\ Len(dd.t) = MaxPoints
    /\ \E r \in 1..Len(dd.a) :
          /\ SumSeq(dd.a[r]) > 0
          /\ SumSeq(dd.a[r]) < One * Cardinality(RowPairs(dd, r - 1))
    /\ \E p \in Pairs(dd.t) : \A r \in 0..dd.lgdt.n - 1 : p \notin RowPairs(dd, r)


\* k * A, cell by cell.
Scaled(k, a) == [r \in 1..NRows(a) |-> [c \in 1..NCols(a) |-> k * a[r][c]]]

\* Whether every cell is a value of usize.
Representable(a) == \A r \in 1..NRows(a), c \in 1..NCols(a) : a[r][c] < Modulus

ScaleInputs == {2, 3}

\* C9: normalise of an all-zero matrix is the zero matrix of the same shape; otherwise
\* every cell is 255 * a / max(A) clamped to [0, 255], a maximal cell giving 255; and
\* normalise(k * A) = normalise(A) for every k > 0.
C9_NormaliseScaling ==
    img.op = "normalise" =>
        /\ img.out.tag = "Ok"
        /\ NRows(img.out.v) = NRows(img.a) /\ NCols(img.out.v) = NCols(img.a)
        /\ \A r \in 1..NRows(img.a), c \in 1..NCols(img.a) :
              /\ MatrixMax(img.a) = 0 => img.out.v[r][c] = 0
              /\ MatrixMax(img.a) > 0 =>
                    img.out.v[r][c] = Clamp((MaxU8 * img.a[r][c]) \div MatrixMax(img.a), 0, MaxU8)
              /\ (img.a[r][c] = MatrixMax(img.a) /\ MatrixMax(img.a) > 0)
                    => img.out.v[r][c] = MaxU8
        /\ \A k \in ScaleInputs :
              (img.T = "f64" \/ Representable(Scaled(k, img.a)))
                  => Normalise(img.T, img.build, Scaled(k, img.a)) = img.out

\* C10 as stated: the header of the PNG has width = n_dm, the number of columns of the
\* matrix, and height = n_lgdt, its number of rows.
C10_PngWidthIsNDm ==
    img.op = "to_png" =>
        /\ img.width = NCols(img.a)
        /\ img.height = NRows(img.a)

\* C10, amended: to_png writes the transposed matrix, so the header has
\* width = n_lgdt, the number of rows of the matrix, and height = n_dm, its number of
\* columns; the pixel at column x of line y is the cell (x, y) of the matrix.
C10_PngWidthIsNLgDt ==
    img.op = "to_png" =>
        /\ img.width = NRows(img.a)
        /\ img.height = NCols(img.a)
        /\ Len(img.out.v) = img.height
        /\ \A y \in 1..img.height :
              /\ Len(img.out.v[y]) = img.width
              /\ \A x \in 1..img.width : img.out.v[y][x] = img.a[x][y]

\* A matrix with more columns than rows and a cell of 255 has been written.
C10_Witness ==
    /\ img.op = "to_png"
    /\ NRows(img.a) = 1
    /\ NCols(img.a) = MaxCols
    /\ img.a[1][1] = 0
    /\ img.a[1][MaxCols] = MaxU8

----------------------------------------------------------------------------
(* Properties of the parametrised objects *)

\* A frequency grid was derived from Factors(resolution, factor) on a time sample of
\* positive span.
GridDerived ==
    /\ inst.op \in {"get", "from_time_series"}
    /\ inst.obj.kind = "Factors"
    /\ ObservationTime(inst.args[1]) > 0

\* freq[k] = k * w_min with w_min = pi / (resolution * dt), resolution = r2 / 2.
OnGrid(freq, r2, dt) ==
    \A k \in 1..Len(freq) : freq[k].n * r2 * dt = 2 * k * freq[k].d

\* x <= w_max and x >= w_max, with w_max = factor * pi * N / dt, factor = q2 / 2.
AtMostMax(x, q2, n, dt) == x.n * 2 * dt <= q2 * n * x.d

AtLeastMax(x, q2, n, dt) == x.n * 2 * dt >= q2 * n * x.d

Produced ==
    /\ inst.op \in {"from_time_series", "periodogram::Periodogram::new"}
    /\ inst.out.tag = "Ok"

StrictlyIncreasing(freq) ==
    \A k \in 1..Len(freq) - 1 : RatLess(freq[k], freq[k + 1])

\* C12: every Periodogram value that Periodogram::new or from_time_series produces
\* holds as many frequencies as powers, the frequencies strictly increasing, with
\* the grid taken from Factors or from Vector.
C12_EqualLengthIncreasing ==
    Produced =>
        /\ Len(inst.out.freq) = Len(inst.out.power)
        /\ StrictlyIncreasing(inst.out.freq)

\* The parameters of the evaluator, if the object is one: in the range the text gives?
InRange(e) ==
    CASE e.kind = "BeyondNStd" -> e.par[1] > 0
      [] e.kind \in {"InterPercentileRange", "PercentDifferenceMagnitudePercentile"} ->
            0 < e.par[1] /\ e.par[1] < 500
      [] e.kind = "MagnitudePercentageRatio" ->
            0 < e.par[1] /\ e.par[1] < 500 /\ 0 < e.par[2] /\ e.par[2] < 500
      [] e.kind = "MedianBufferRangePercentage" -> e.par[1] > 0
      [] e.kind = "Periodogram" -> e.par[1] # 0
      [] OTHER -> TRUE

\* The constructor calls of the claim, with the kind each one builds.
ValidatingConstructors ==
    {"BeyondNStd::new", "InterPercentileRange::new",
     "PercentDifferenceMagnitudePercentile::new", "MagnitudePercentageRatio::new",
     "MedianBufferRangePercentage::new", "Periodogram::new"}

\* The arguments of a constructor call, as an object of the kind called for.
Requested(op, args) ==
    [kind |-> CHOOSE k \in {"BeyondNStd", "InterPercentileRange",
                            "PercentDifferenceMagnitudePercentile",
                            "MagnitudePercentageRatio", "MedianBufferRangePercentage",
                            "Periodogram"} : op = k \o "::new",
     par |-> args]

\* C13: validation is eager: a constructor called with an out-of-range parameter
\* aborts and leaves no object, so no evaluator exists with nstd <= 0, a quantile
\* outside (0, 0.5) (InterPercentileRange, PercentDifferenceMagnitudePercentile,
\* both quantiles of MagnitudePercentageRatio), a MedianBufferRangePercentage
\* quantile <= 0, or peaks = 0.
C13_EagerValidation ==
    /\ InRange(inst.obj)
    /\ (inst.op \in ValidatingConstructors /\ ~InRange(Requested(inst.op, inst.args)))
          => (inst.out.tag = "Abort" /\ inst.obj.kind = "none")

\* MagnitudePercentageRatio::new was called with a denominator quantile of 0.6, and
\* aborted.
C13_Witness ==
    /\ inst.op = "MagnitudePercentageRatio::new"
    /\ inst.args = <<250, 600>>
    /\ inst.out.tag = "Abort"

\* C14: Bins::new accepts only a window > 0: a call with a window of zero or below
\* aborts, so no Bins exists whose bin() divides by a window that is not > 0.
C14_WindowStrictlyPositive ==
    /\ inst.obj.kind = "Bins" => inst.obj.par[1] > 0
    /\ (inst.op = "Bins::new" /\ inst.args[1] <= 0) => inst.out.tag = "Abort"

\* C15: after any sequence of Periodogram::new, set_freq_resolution and
\* set_max_freq_factor the resolution and the max_freq_factor that eval uses are
\* both > 0: a setter called with zero or a negative value is rejected.
C15_SettersValidate ==
    /\ (inst.obj.kind = "Periodogram" /\ inst.op = "eval")
          => (inst.obj.par[2] > 0 /\ inst.obj.par[3] > 0)
    /\ (inst.op \in {"set_freq_resolution", "set_max_freq_factor"} /\ inst.args[1] <= 0)
          => inst.out.tag = "Abort"

----------------------------------------------------------------------------
(* Properties of the evaluations on given numbers *)

\* The evaluation in num is an eval of one of the evaluators that need the weights,
\* on a series that has none.
WithoutWeights ==
    /\ num.op = "eval"
    /\ num.e.kind \in WeightKinds \cup {"Bins"}
    /\ ~num.ts.w

\* C16 as stated: an evaluator that requires weights, evaluated on a series without
\* weights, fails with the error RequiresWeights.
C16_FailsRequiresWeights == WithoutWeights => num.out = Err(RequiresWeights)

\* C16, amended: an evaluator that requires weights, evaluated on a series without
\* weights, does not fail: eval returns a vector, with no error and no abort.
C16_ReturnsWithoutWeights ==
    WithoutWeights => num.out.tag = "Ok" /\ num.out.err = NoError

C16_Witness ==
    /\ WithoutWeights
    /\ num.e.kind = "StetsonK"
    /\ LenU(num.ts) >= 2
    /\ num.out.tag = "Ok"

\* C17: on a series without weights StetsonK returns [NaN], and LinearFit,
\* WeightedMean, ReducedChi2 and Bins return as many NaN as their size_hint (Bins
\* without sub-features: the empty vector), one value per name, with no abort.
C17_NaNOfDeclaredWidth ==
    WithoutWeights =>
        /\ num.out.tag = "Ok"
        /\ Len(num.out.v) = SizeHint(num.e)
        /\ Len(num.out.v) = Len(GetNames(num.e))
        /\ \A k \in 1..Len(num.out.v) : num.out.v[k].val = "NaN"
        /\ num.e.kind = "StetsonK" => Len(num.out.v) = 1
        /\ num.e.kind = "Bins" /\ num.e.subs = <<>> => num.out.v = <<>>

C17_Witness ==
    /\ WithoutWeights
    /\ num.e.kind = "Bins"
    /\ SizeHint(num.e) = 4
    /\ LenU(num.ts) >= 1
    /\ \A k \in 1..4 : num.out.v[k].val = "NaN"

\* The evaluation in num is an eval of Cusum, Eta, EtaE, Kurtosis or Skew on a flat
\* series that is as long as the evaluator's minimum length.
OnFlatSeries ==
    /\ num.op = "eval"
    /\ num.e.kind \in FlatKinds
    /\ LenU(num.ts) >= MinTsLength(num.e)
    /\ \A i \in 1..LenU(num.ts) : num.ts.m[i] = num.ts.m[1]

\* C20: on a flat series of at least the minimum length, Cusum, Eta, EtaE, Kurtosis
\* and Skew each return exactly [0], whatever the times, repeated times included.
C20_FlatGivesZero ==
    OnFlatSeries =>
        /\ num.out.tag = "Ok"
        /\ Len(num.out.v) = 1
        /\ num.out.v[1].val = "0"

C20_Witness ==
    /\ OnFlatSeries
    /\ num.e.kind = "EtaE"
    /\ LenU(num.ts) = 3
    /\ num.ts.t[1] = num.ts.t[2]
    /\ num.out.v = <<Value(<<"eta_e">>, "0")>>

\* The number of local maxima whose power is above, and at least, that of maximum i.
Above(power, i) == Cardinality({p \in LocalMaxima(power) : power[p] > power[i]})

AtLeast(power, i) == Cardinality({p \in LocalMaxima(power) : power[p] >= power[i]})

\* Entries 2k and 2k+1 (counted from zero) hold the period and the signal to noise
\* of a local maximum that is k-th by decreasing power.
HoldsPeak(k) ==
    \E i \in LocalMaxima(num.power) :
        /\ Above(num.power, i) <= k
        /\ k < AtLeast(num.power, i)
        /\ num.out[2 * k + 1] = Period(num.freq[i])
        /\ num.out[2 * k + 2] = SignalToNoise(num.power, i)

\* C18: the first 2 * peaks entries of Periodogram(peaks).eval are, for k < peaks,
\* the period and the signal to noise of the k-th local maximum by decreasing power
\* when there are at least k + 1 local maxima, and two zeros otherwise; no maximum
\* is used twice; a flat series gives only zeros; the first two entries of
\* Periodogram(1) are the first two of Periodogram(peaks) on the same input.
C18_PeakLayout ==
    num.op = "eval_peaks" =>
        LET peaks == num.e.par[1]
            found == Cardinality(LocalMaxima(num.power))
        IN  /\ Len(num.out) = 2 * peaks
            /\ \A k \in 0..peaks - 1 :
                   IF k + 1 <= found THEN HoldsPeak(k)
                   ELSE num.out[2 * k + 1] = Zero /\ num.out[2 * k + 2] = Zero
            /\ \A j, k \in 0..peaks - 1 :
                   j < k /\ k + 1 <= found => num.out[2 * j + 1] # num.out[2 * k + 1]
            /\ StdIsZero(num.ts) => \A j \in 1..2 * peaks : num.out[j] = Zero
            /\ num.one = SubSeq(num.out, 1, 2)

C18_Witness ==
    /\ num.op = "eval_peaks"
    /\ num.e.par[1] = 3
    /\ LocalMaxima(num.power) = {2, 4}
    /\ num.power[2] < num.power[4]
    /\ num.out[1] = Period(num.freq[4])
    /\ num.out[3] = Period(num.freq[2])
    /\ num.out[5] = Zero
    /\ num.out[6] = Zero

\* Sum and product of the values of f over the finite set S.
RECURSIVE SumOver(_, _)
SumOver(S, f) ==
    IF S = {} THEN 0
    ELSE LET i == CHOOSE j \in S : TRUE IN f[i] + SumOver(S \ {i}, f)

RECURSIVE ProductOver(_, _)
ProductOver(S, f) ==
    IF S = {} THEN 1
    ELSE LET i == CHOOSE j \in S : TRUE IN f[i] * ProductOver(S \ {i}, f)

\* The keys of the points given to bin, and the points of one key.
KeyOf(i) == FloatKey(num.e, num.t[i])

Keys == {KeyOf(i) : i \in 1..Len(num.t)}

PointsOf(k) == {i \in 1..Len(num.t) : KeyOf(i) = k}

\* The order of the keys: of numbers, and of the infinities around them.
KeyLess(a, b) ==
    /\ a.tag # "NaN"
    /\ b.tag # "NaN"
    /\ (IF a.tag = "inf" THEN 1000000 * a.n ELSE a.n)
         < (IF b.tag = "inf" THEN 1000000 * b.n ELSE b.n)

\* Bin b is the bin of key k: its time is (k + 1/2) * window, its magnitude is
\* (sum of m / err2) / (sum of 1 / err2) and its squared error is the number of its
\* points / (sum of 1 / err2), compared after multiplication by the product D of the
\* squared errors of its points.
IsBinOf(b, k) ==
    LET S == PointsOf(k)
        D == ProductOver(S, num.err2)
        W == SumOver(S, [i \in S |-> D \div num.err2[i]])
        M == SumOver(S, [i \in S |-> num.m[i] * (D \div num.err2[i])])
    IN  /\ k.tag = "value"
        /\ num.out.t[b] = Number("value", (2 * k.n + 1) * num.e.par[1], 1)
        /\ num.out.m[b].tag = "value"
        /\ num.out.m[b].n * W = M * num.out.m[b].d
        /\ num.out.err2[b].tag = "value"
        /\ num.out.err2[b].n * W = Cardinality(S) * D * num.out.err2[b].d

\* The statement of C19 for the call of bin in num.
BinsPartition ==
    /\ Len(num.out.t) = Len(num.out.m)
    /\ Len(num.out.m) = Len(num.out.err2)
    /\ Len(num.out.t) = Cardinality(Keys)
    /\ \E ks \in [1..Len(num.out.t) -> Keys] :
           /\ \A b \in 1..Len(ks) - 1 : KeyLess(ks[b], ks[b + 1])
           /\ \A b \in 1..Len(ks) : IsBinOf(b, ks[b])
           /\ SumSeq([b \in 1..Len(ks) |-> Cardinality(PointsOf(ks[b]))]) = Len(num.t)

\* C19 as stated: for non-decreasing t, Bins::bin gives exactly one bin per distinct
\* key floor((t - offset) / window), in increasing key order, every point in exactly
\* one bin; a bin has time (key + 1/2) * window, magnitude (sum of m / err2) / (sum
\* of 1 / err2) and squared error N_bin / (sum of 1 / err2); the three vectors have
\* the same length.
C19_BinsPartition == num.op = "bin" => BinsPartition

\* The same for the windows that are above zero.
BinsPartitionPositiveWindow == num.op = "bin" /\ num.e.par[1] > 0 => BinsPartition

\* The times of the series in num are evenly spaced, with a step above zero.
EvenGrid ==
    /\ num.ts.t[2] > num.ts.t[1]
    /\ \A i \in 1..LenU(num.ts) - 1 : num.ts.t[i + 1] - num.ts.t[i] = num.ts.t[2] - num.ts.t[1]

\* C21: on a series of N >= 2 evenly spaced times Eta and EtaE return the same value.
C21_EtaIsEtaE == num.op = "eval_eta" /\ EvenGrid => num.eta = num.eta_e

C21_Witness ==
    /\ num.op = "eval_eta"
    /\ EvenGrid
    /\ LenU(num.ts) = 4
    /\ ~StdIsZero(num.ts)
    /\ num.eta = num.eta_e
    /\ num.eta # Zero

\* C22 as stated: MaximumSlope.eval on a series of N >= 2 non-decreasing times,
\* repeated times allowed, never aborts and returns one value, also when every
\* successive time difference is zero.
C22_MaximumSlopeNeverAborts ==
    num.op = "eval_maximum_slope" /\ LenU(num.ts) >= 2 =>
        num.out.tag = "Ok" /\ Len(num.out.v) = 1

\* The series in num has N >= 2 points, a last time after the first, and magnitudes
\* that are not all the same.
SlopesDefined ==
    /\ num.op = "eval_eta"
    /\ num.ts.t[LenU(num.ts)] > num.ts.t[1]
    /\ ~StdIsZero(num.ts)

\* The pairs of successive observations with a time difference above zero.
PositivePairs == {i \in 1..LenU(num.ts) - 1 : num.ts.t[i + 1] > num.ts.t[i]}

\* (t_{N-1} - t_0)^2 * (sum of (dm / dt)^2 over the pairs with dt > 0) /
\* ((N - 1)^3 * sigma_m^2), with sigma_m^2 = (N * sum m^2 - (sum m)^2) / (N (N - 1)).
EtaEExpected ==
    LET N == LenU(num.ts)
        m == num.ts.m
        t == num.ts.t
        pairs == [i \in 1..N - 1 |->
                     IF i \in PositivePairs
                     THEN Fraction((m[i + 1] - m[i]) * (m[i + 1] - m[i]),
                                   (t[i + 1] - t[i]) * (t[i + 1] - t[i]))
                     ELSE Zero]
        sigma2 == Fraction(N * SumSeq([i \in 1..N |-> m[i] * m[i]]) - SumSeq(m) * SumSeq(m),
                           N * (N - 1))
    IN  Div(Times(Fraction((t[N] - t[1]) * (t[N] - t[1]), 1), SumNumbers(pairs)),
            Times(Fraction((N - 1) * (N - 1) * (N - 1), 1), sigma2))

\* C27: for N >= 2, non-decreasing t with t_{N-1} > t_0 and sigma_m # 0, EtaE skips
\* the pairs whose squared slope is not finite: the result is finite and equals
\* (t_{N-1} - t_0)^2 * (sum of (dm_i / dt_i)^2 over the pairs with dt_i > 0) /
\* ((N - 1)^3 * sigma_m^2), N - 1 counting the skipped pairs too.
C27_EtaESkipsNonFinite ==
    SlopesDefined => IsFinite(num.eta_e) /\ num.eta_e = EtaEExpected

C27_Witness ==
    /\ SlopesDefined
    /\ \E i \in 1..LenU(num.ts) - 1 :
           num.ts.t[i + 1] = num.ts.t[i] /\ num.ts.m[i + 1] # num.ts.m[i]
    /\ \E i \in 1..LenU(num.ts) - 1 :
           num.ts.t[i + 1] = num.ts.t[i] /\ num.ts.m[i + 1] = num.ts.m[i]
    /\ IsFinite(num.eta_e)
    /\ num.eta_e # Zero

\* idx(x) of the grid in inst classifies x: LowerMin exactly below start,
\* GreaterMax exactly from end on, and Value otherwise.
IdxClassifies ==
    LET g == GridOf(inst.obj)
        x == inst.args[1]
    IN  /\ inst.out.tag \in {"LowerMin", "GreaterMax", "Value"}
        /\ inst.out.tag = "LowerMin" <=> x < g.start
        /\ inst.out.tag = "GreaterMax" <=> x >= g.end

\* The Value(i) of idx(x) is a cell of the grid, and x lies between its borders.
IdxInsideGrid ==
    LET g == GridOf(inst.obj)
        x == inst.args[1]
        i == inst.out.v
    IN  inst.out.tag = "Value" =>
            /\ 0 <= i
            /\ i < g.n
            /\ Borders(g)[i + 1] <= x
            /\ x < Borders(g)[i + 2]

\* C23 as stated: for every grid that Grid::new accepts, idx(x) is LowerMin exactly
\* when x < start, GreaterMax exactly when x >= end, and otherwise Value(i) with
\* 0 <= i < n and borders[i] <= x < borders[i + 1], so that the cell index lies
\* inside the output matrix.
C23_IdxInsideGrid == inst.op = "idx" => IdxClassifies /\ IdxInsideGrid

\* The same for the accepted grids of at least one cell.
IdxInsideGridOfCells ==
    inst.op = "idx" /\ GridOf(inst.obj).n >= 1 => IdxClassifies /\ IdxInsideGrid

IdxInsideGridOfCellsReached ==
    /\ inst.op = "idx"
    /\ GridOf(inst.obj).n = 4
    /\ inst.out = CellValue(3)

\* The cdf of the pair p at the borders of the dm grid.
CdfOfPair(d, p) ==
    [k \in 1..d.dm.n + 1 |->
        NormalCdf(d.erf, Borders(d.dm)[k], d.m[p[2]] - d.m[p[1]], d.w[p[1]] + d.w[p[2]])]

\* CDF(b_{k+1}) - CDF(b_k) for every cell k of the row, nothing left out.
EveryCell(cdf) == [k \in 1..Len(cdf) - 1 |-> cdf[k + 1] - cdf[k]]

\* C24: in convert_lc_to_gausses, stopping the walk over the dm borders at the
\* first border whose cdf is 1 gives the same row as adding
\* CDF(b_{k+1}) - CDF(b_k) for every cell k: with a cdf that is non-decreasing in
\* the border and at most 1, every cell that is left out would have received 0.
C24_EarlyStopEqualsFullSum ==
    (dd.op = "gausses" /\ dd.pc = "done" /\ Sorted(dd.t)) =>
        \A r \in 1..dd.lgdt.n, c \in 1..dd.dm.n :
            dd.a[r][c] = SumOver(RowPairs(dd, r - 1),
                                 [p \in Pairs(dd.t) |-> EveryCell(CdfOfPair(dd, p))[c]])

\* A finished conversion with a pair whose walk stopped before the last cell
\* after adding to a cell, and a pair whose walk went through every cell.
C24_Witness ==
    /\ dd.op = "gausses"
    /\ dd.pc = "done"
    /\ Sorted(dd.t)
    /\ dd.dm.n >= 2
    /\ \E r \in 1..dd.lgdt.n :
          /\ \E p \in RowPairs(dd, r - 1) :
                LET walk == TakeWhileNotOne(CdfOfPair(dd, p))
                IN  Len(walk) < dd.dm.n /\ SumSeq(walk) > 0
          /\ \E p \in RowPairs(dd, r - 1) :
                Len(TakeWhileNotOne(CdfOfPair(dd, p))) = dd.dm.n

\* The bytes handed to write_image_data: the lines of pixels one after the other.
ImageData == Flatten(img.out.v)

\* C25: to_png writes the matrix transposed, the lgdt (row) axis as the width of
\* the image: for a matrix A of R rows and C columns the PNG has width R and
\* height C, and the byte at position r * R + c of the data (line r, column c of
\* the image) is A[c][r].
C25_PngDataTransposed ==
    img.op = "to_png" =>
        LET R == NRows(img.a)
            C == NCols(img.a)
        IN  /\ img.width = R
            /\ img.height = C
            /\ Len(ImageData) = R * C
            /\ \A r \in 0..C - 1, c \in 0..R - 1 :
                  ImageData[r * R + c + 1] = img.a[c + 1][r + 1]

\* A matrix of two rows and two columns that is not its own transpose has been
\* written.
C25_Witness ==
    /\ img.op = "to_png"
    /\ NRows(img.a) = 2
    /\ NCols(img.a) = 2
    /\ img.a[1][2] # img.a[2][1]
    /\ ImageData[2] = img.a[2][1]

\* The time of bin b, in the unit of BinT (half a hundredth), is
\* (j + 1/2) * window + offset for the key j of the bin, and lies between the
\* boundaries j * window + offset and (j + 1) * window + offset.
BinTimeInsideBin(b) ==
    LET runs == Runs([i \in 1..Len(num.t) |-> KeyOf(i)], 1)
        j == KeyOf(runs[b][1])
        window == num.e.par[1]
        offset == num.e.par[2]
    IN  /\ j.tag = "value"
        /\ num.out.t[b] = Number("value", (2 * j.n + 1) * window + 2 * offset, 1)
        /\ 2 * j.n * window + 2 * offset <= num.out.t[b].n
        /\ num.out.t[b].n <= 2 * (j.n + 1) * window + 2 * offset

\* C26 as stated: Bins::bin places the j-th bin at (j + 1/2) * window + offset,
\* j = floor((t - offset) / window) the key of the bin, for every window above zero
\* and every offset, an offset other than zero included, so that the time of a bin
\* lies inside the boundaries of the bin.
C26_BinTimeWithOffset ==
    num.op = "bin" /\ num.e.par[1] > 0 =>
        \A b \in 1..Len(num.out.t) : BinTimeInsideBin(b)

\* The same for the offset zero.
BinTimeOffsetZero ==
    num.op = "bin" /\ num.e.par[1] > 0 /\ num.e.par[2] = 0 =>
        \A b \in 1..Len(num.out.t) : BinTimeInsideBin(b)

\* N times the deviations of the magnitudes in num from their mean, and the sums of
\* their squares and of their fourth powers.
ScaledDeviations ==
    [i \in 1..LenU(num.ts) |-> LenU(num.ts) * num.ts.m[i] - SumSeq(num.ts.m)]

SumOfSquares == SumSeq([i \in 1..LenU(num.ts) |-> ScaledDeviations[i] * ScaledDeviations[i]])

SumOfFourths ==
    SumSeq([i \in 1..LenU(num.ts) |->
        ScaledDeviations[i] * ScaledDeviations[i] * ScaledDeviations[i] * ScaledDeviations[i]])

\* Kurtosis was evaluated on N >= 4 magnitudes with sigma_m # 0.
KurtosisDefined ==
    /\ num.op = "eval_kurtosis"
    /\ LenU(num.ts) >= 4
    /\ ~StdIsZero(num.ts)

StetsonKDefined ==
    /\ num.op = "eval_stetson_k"
    /\ num.weights # <<>>
    /\ Len(num.m) >= 2

\* |m_i - wmean| / sqrt(err2_i) of the observations in num, all multiplied by the
\* same positive number so that they are whole: with w_i = 4 / err2_i (err2 is 1 or
\* 4), B = sum w_i and A = sum m_i w_i, the i-th is |m_i B - A| * 2 / sqrt(err2_i).
ScaledResiduals ==
    LET err2 == num.weights[1]
        w == [i \in 1..Len(num.m) |-> 4 \div err2[i]]
        B == SumSeq(w)
        A == SumSeq([i \in 1..Len(num.m) |-> num.m[i] * w[i]])
    IN  [i \in 1..Len(num.m) |->
            (IF num.m[i] * B >= A THEN num.m[i] * B - A ELSE A - num.m[i] * B)
                * (IF err2[i] = 1 THEN 2 ELSE 1)]

ResidualsEqual == \A i, j \in 1..Len(num.m) : ScaledResiduals[i] = ScaledResiduals[j]

Chi2IsZero == \A i \in 1..Len(num.m) : ScaledResiduals[i] = 0

\* The value K of the StetsonK in num: 0 when chi2 is 0, else
\* sum(|m_i - wmean| / sqrt(err2_i)) / sqrt(N * chi2), given by its square.
StetsonKIsTheFormula ==
    LET c == ScaledResiduals
        k2 == Fraction(SumSeq(c) * SumSeq(c),
                       Len(c) * SumSeq([i \in 1..Len(c) |-> c[i] * c[i]]))
    IN  /\ Len(num.out) = 1
        /\ num.out[1] = IF Chi2IsZero THEN Zero ELSE Number("sqrt", k2.n, k2.d)

\* 0 <= K <= 1.
StetsonKInUnitInterval == 0 <= num.out[1].n /\ num.out[1].n <= num.out[1].d

StetsonKIsOne == num.out[1].tag = "sqrt" /\ num.out[1].n = num.out[1].d

\* C29 as stated: for every series with weights and N >= 2, StetsonK.eval returns 0
\* when chi2 is 0 and otherwise sum(|m_i - wmean| / sqrt(err2_i)) / sqrt(N * chi2);
\* K is always in [0, 1], and is 1 exactly when all |m_i - wmean| / sqrt(err2_i)
\* are equal.
C29_StetsonKOneIffEqual ==
    StetsonKDefined =>
        /\ StetsonKIsTheFormula
        /\ StetsonKInUnitInterval
        /\ StetsonKIsOne <=> ResidualsEqual

\* C29, amended: the same, K being 1 exactly when all |m_i - wmean| / sqrt(err2_i)
\* are equal and not zero; when all are zero, chi2 is 0 and K is 0.
C29_StetsonKOneIffEqualNotZero ==
    StetsonKDefined =>
        /\ StetsonKIsTheFormula
        /\ StetsonKInUnitInterval
        /\ StetsonKIsOne <=> (ResidualsEqual /\ ~Chi2IsZero)

\* A K of 1 on weights that are not all the same, and on a square wave.
C29_Witness ==
    /\ StetsonKDefined
    /\ StetsonKIsOne
    /\ \/ \E i, j \in 1..Len(num.m) : num.weights[1][i] # num.weights[1][j]
       \/ num.m = <<2, 0, 2, 0>>

\* A finished from_time_series has fewer than factor * N * resolution + 1
\* frequencies when the time span is above zero (resolution = r2 / 2, factor =
\* q2 / 2), and returns a periodogram with one power for each frequency.
GridWalkBounded ==
    inst.pc = "done" =>
        /\ ObservationTime(inst.args[1]) > 0 =>
              4 * Len(inst.freq)
                  < inst.obj.par[2] * Len(inst.args[1]) * inst.obj.par[1] + 4
        /\ Len(inst.power) = Len(inst.freq)
        /\ inst.out = Returned(inst.freq, inst.power)

\* C30: building the frequency grid from PeriodogramFreq::Factors terminates: for
\* a time span above zero, resolution > 0 and factor > 0 the iteration k = 1, 2,
\* ... stops after fewer than factor * N * resolution + 1 frequencies, and
\* Periodogram::from_time_series then computes one power for each frequency of the
\* grid and finishes.
C30_GridWalkTerminates ==
    /\ []GridWalkBounded
    /\ (inst.pc = "get") ~> (inst.pc = "done")

\* A walk over a grid of more frequencies than observations has finished.
C30_Witness ==
    /\ inst.pc = "done"
    /\ ObservationTime(inst.args[1]) > 0
    /\ Len(inst.freq) > Len(inst.args[1])
    /\ Len(inst.power) = Len(inst.freq)

====
